---------------------------- MODULE Spec2Model ----------------------------
(***************************************************************************)
(* A model of kj's futex-based Mutex and Once (src/c++/src/kj/mutex.c++)   *)
(* and of capnp's segment framing (src/c++/src/capnp/serialize.c++).       *)
(*                                                                         *)
(* Every atomic operation and every futex syscall of the source is one     *)
(* step of the thread that executes it; the reads and writes of a thread's *)
(* own locals are folded into the step of the atomic operation before them. *)
(***************************************************************************)
EXTENDS Integers, Sequences, FiniteSets, TLC

\* ------------------------------------------------------------------ bounds

\* Threads that use the Mutex.
NThreads == 3
\* lock() calls made in one run of the Mutex (finitely many lock calls).
MaxLockCalls == 3
\* Shared locks one thread may hold at a time (re-entered shared locks).
MaxNest == 2
\* Width of the SHARED_COUNT field of the modelled state word.  The source
\* has 30 bits; the model's threads never hold 2^CountBits shared locks, so
\* no carry reaches the request bit at either width.
CountBits == 3

\* Calls of runOnce(), reset() and disable() made in one run of the Once.
MaxOnceCalls == 4

Threads == 1..NThreads

\* ----------------------------------------------------------------- Mutex

VARIABLES
  futex,      \* Mutex::futex, the state word
  pc,         \* pc[t]: the place of thread t in lock()/unlock()
  state,      \* state[t]: the local `state` / `oldState` of thread t's call
  exclHeld,   \* exclHeld[t]: t returned from lock(EXCLUSIVE), has not released
  sharedHeld, \* sharedHeld[t]: lock(SHARED) calls of t returned, not released
  value,      \* the datum the mutex guards (MutexGuarded<uint>::value)
  released,   \* the datum as the last exclusive holder left it
  observed,   \* observed[t]: the datum t read when lock(EXCLUSIVE) returned
  nLockCalls  \* lock() calls made so far

mutexVars ==
  <<futex, pc, state, exclHeld, sharedHeld, value, released, observed,
    nLockCalls>>

VARIABLE
  asserted    \* how the latest assertLockedByCaller() ended

\* ------------------------------------------------------------------ Once

VARIABLES
  onceFutex,     \* Once::futex, the latch word
  opc,           \* opc[t]: the place of thread t in runOnce()/disable()
  ostate,        \* ostate[t]: the local `state` of thread t's call
  ret,           \* ret[t]: how t's latest runOnce() ended
  initRuns,      \* init.run() invocations so far
  nFailed,       \* init.run() invocations that threw
  resetCalled,   \* reset() has been called
  disableCalled, \* disable() has been called
  nOnceCalls     \* calls made so far

onceVars ==
  <<onceFutex, opc, ostate, ret, initRuns, nFailed, resetCalled, disableCalled,
    nOnceCalls>>

VARIABLE
  resetOutcome   \* how the latest reset() ended

\* ------------------------------------------------------- segment framing

VARIABLES
  segments,    \* the `segments` argument of messageToFlatArray / writeMessage
  array,       \* the flat array of words (result of messageToFlatArray)
  fpc,         \* the place of the flat-array scenario
  flatFailure, \* the failure messageToFlatArray reported, or NoFailure
  flatReader,  \* the fields of the FlatArrayMessageReader, or NoReader
  flatGot      \* the latest answer of FlatArrayMessageReader::getSegment

flatVars == <<array, fpc, flatFailure, flatReader, flatGot>>

VARIABLES
  stream,       \* the words of the byte stream: what the sink was given
  consumed,     \* bytes the reader took from the stream, by read and skip
  writes,       \* write calls writeMessage made on the sink
  writeFailure, \* the failure writeMessage reported, or NoFailure
  rpc,          \* the place of the InputStreamMessageReader
  options,      \* ReaderOptions of the InputStreamMessageReader
  exactReads,   \* the stream returns exactly the minimum a read asks for
  scratchSpace, \* the words of scratchSpace (the caller's or the owned ones)
  reader,       \* the locals and fields of the InputStreamMessageReader
  failures,     \* the failures its constructor reported, in order
  got           \* the latest answer of InputStreamMessageReader::getSegment

streamVars ==
  <<stream, consumed, writes, writeFailure, rpc, options, exactReads,
    scratchSpace, reader, failures, got>>

vars ==
  <<mutexVars, asserted, onceVars, resetOutcome, segments, flatVars, streamVars>>

\* A step of the Mutex leaves the other objects alone, and so on.
MutexOnly ==
  UNCHANGED <<asserted, onceVars, resetOutcome, segments, flatVars, streamVars>>
OnceOnly ==
  UNCHANGED <<mutexVars, asserted, resetOutcome, segments, flatVars, streamVars>>
FlatOnly ==
  UNCHANGED <<mutexVars, asserted, onceVars, resetOutcome, segments, streamVars>>
StreamOnly ==
  UNCHANGED <<mutexVars, asserted, onceVars, resetOutcome, segments, flatVars>>

\* No failure reported; no reader constructed; no answer given yet.
NoFailure == "none"
NoAssertion == [called |-> FALSE]
NoReset == [called |-> FALSE]
NoReader == [constructed |-> FALSE]
NoAnswer == [asked |-> FALSE]

\* No message to frame.
NoMessage == segments = <<>>

\* The flat-array code before anything is called.
FlatIdle ==
  /\ array = <<>>
  /\ fpc = "start"
  /\ flatFailure = NoFailure
  /\ flatReader = NoReader
  /\ flatGot = NoAnswer

\* ArrayPtr<const word>: a view of `size` words that starts `begin` words
\* into the underlying array; nullptr is the empty view.
Slice(start, end) == [begin |-> start, size |-> end - start]
NullPtr == [begin |-> 0, size |-> 0]

\* readPos == nullptr.
NullPos == -1

\* The InputStreamMessageReader before its constructor has run: no owned
\* space (ownedSpace counts the words allocated), no segment, no cursor.
NewReader ==
  [segmentCount |-> 0, segment0Size |-> 0, totalWords |-> 0,
   moreSizes |-> <<>>, ownedSpace |-> 0, segment0 |-> NullPtr,
   moreSegments |-> <<>>, readPos |-> NullPos]

\* The stream code before anything is called, on an empty stream.
StreamIdle ==
  /\ stream = <<>>
  /\ consumed = 0
  /\ writes = 0
  /\ writeFailure = NoFailure
  /\ rpc = "none"
  /\ options = [traversalLimitInWords |-> 0]
  /\ exactReads = FALSE
  /\ scratchSpace = <<>>
  /\ reader = NewReader
  /\ failures = <<>>
  /\ got = NoAnswer

\* The framing code at rest, with no message.
FramingIdle == NoMessage /\ FlatIdle /\ StreamIdle

\* The bits of the state word: bit 31, bit 30 and bits 0..29 in the source,
\* bit CountBits+1, bit CountBits and bits 0..CountBits-1 here.
EXCLUSIVE_REQUESTED == 2^CountBits
EXCLUSIVE_HELD == 2 * EXCLUSIVE_REQUESTED
SHARED_COUNT_MASK == EXCLUSIVE_REQUESTED - 1
WordMod == 2 * EXCLUSIVE_HELD

\* word & bit # 0, for a one-bit mask.
HasBit(word, bit) == (word \div bit) % 2 = 1
\* word | bit
SetBit(word, bit) == IF HasBit(word, bit) THEN word ELSE word + bit
\* word & ~bit
ClearBit(word, bit) == IF HasBit(word, bit) THEN word - bit ELSE word
\* word & SHARED_COUNT_MASK
SharedCount(word) == word % EXCLUSIVE_REQUESTED

\* The values a holder may store in the guarded datum.
Values == {0, 1}

MutexInit ==
  /\ futex = 0
  /\ pc = [t \in Threads |-> "idle"]
  /\ state = [t \in Threads |-> 0]
  /\ exclHeld = [t \in Threads |-> FALSE]
  /\ sharedHeld = [t \in Threads |-> 0]
  /\ value = 0
  /\ released = 0
  /\ observed = [t \in Threads |-> 0]
  /\ nLockCalls = 0
  /\ asserted = NoAssertion

\* Threads parked in FUTEX_WAIT on &futex.
Parked == {t \in Threads : pc[t] \in {"xl_parked", "sl_parked"}}

\* Where a thread continues when FUTEX_WAIT returns: the top of the
\* exclusive loop (line 50), or the reload of the shared loop (line 81).
AfterWait(p) ==
  CASE p = "xl_parked" -> "xl_cas"
    [] p = "sl_parked" -> "sl_load"
    [] OTHER -> p

\* FUTEX_WAKE_PRIVATE with INT_MAX: every parked thread returns from its wait.
WakeAll(waker, next) ==
  [t \in Threads |->
     IF t = waker THEN next ELSE AfterWait(pc[t])]

\* lock(EXCLUSIVE), lines 49-54: CAS 0 -> EXCLUSIVE_HELD; on failure `state`
\* holds the word that was seen, and line 57 tests its request bit.
LockExclusiveCasOkBroken(word) == ~HasBit(word, EXCLUSIVE_HELD)
LockExclusiveCasOk(word) == word = 0

ExclusiveCas(t) ==
  /\ IF LockExclusiveCasOk(futex)
       THEN /\ futex' = SetBit(futex, EXCLUSIVE_HELD)
            /\ pc' = [pc EXCEPT ![t] = "idle"]
            /\ state' = [state EXCEPT ![t] = 0]
            /\ exclHeld' = [exclHeld EXCEPT ![t] = TRUE]
            /\ observed' = [observed EXCEPT ![t] = value]
       ELSE /\ state' = [state EXCEPT ![t] = futex]
            /\ pc' = [pc EXCEPT ![t] =
                        IF HasBit(futex, EXCLUSIVE_REQUESTED) THEN "xl_wait" ELSE "xl_req"]
            /\ UNCHANGED <<futex, exclHeld, observed>>
  /\ UNCHANGED <<sharedHeld, value, released>>

\* The test of line 73 on the word a shared locker has in `state`.
SharedAcquiredWriterFirst(word) ==
  ~HasBit(word, EXCLUSIVE_HELD) /\ ~HasBit(word, EXCLUSIVE_REQUESTED)
SharedAcquired(word) == ~HasBit(word, EXCLUSIVE_HELD)

\* lock(SHARED), lines 71-76: add 1 to the word, acquired unless
\* EXCLUSIVE_HELD is set in the result.
SharedAdd(t) ==
  /\ LET new == (futex + 1) % WordMod IN
       /\ futex' = new
       /\ IF SharedAcquired(new)
            THEN /\ pc' = [pc EXCEPT ![t] = "idle"]
                 /\ state' = [state EXCEPT ![t] = 0]
                 /\ sharedHeld' = [sharedHeld EXCEPT ![t] = @ + 1]
            ELSE /\ pc' = [pc EXCEPT ![t] = "sl_wait"]
                 /\ state' = [state EXCEPT ![t] = new]
                 /\ UNCHANGED sharedHeld
  /\ UNCHANGED <<exclHeld, value, released, observed>>

\* A caller enters lock(exclusivity) and executes its first atomic
\* operation.  The Mutex is not re-entrant for a holder of the exclusive
\* lock; a holder of shared locks may take more.
Lock(t, exclusivity) ==
  /\ pc[t] = "idle"
  /\ MutexOnly
  /\ nLockCalls < MaxLockCalls
  /\ ~exclHeld[t]
  /\ nLockCalls' = nLockCalls + 1
  /\ IF exclusivity = "EXCLUSIVE"
       THEN sharedHeld[t] = 0 /\ ExclusiveCas(t)
       ELSE sharedHeld[t] < MaxNest /\ SharedAdd(t)

\* line 50 again, after a wait or a failed request.
LockExclusiveCas(t) ==
  /\ pc[t] = "xl_cas"
  /\ MutexOnly
  /\ ExclusiveCas(t)
  /\ UNCHANGED nLockCalls

\* lines 57-65: CAS state -> state | EXCLUSIVE_REQUESTED; on failure start over.
LockExclusiveRequest(t) ==
  /\ pc[t] = "xl_req"
  /\ MutexOnly
  /\ IF futex = state[t]
       THEN /\ futex' = SetBit(state[t], EXCLUSIVE_REQUESTED)
            /\ state' = [state EXCEPT ![t] = SetBit(state[t], EXCLUSIVE_REQUESTED)]
            /\ pc' = [pc EXCEPT ![t] = "xl_wait"]
       ELSE /\ state' = [state EXCEPT ![t] = 0]
            /\ pc' = [pc EXCEPT ![t] = "xl_cas"]
            /\ UNCHANGED futex
  /\ UNCHANGED <<exclHeld, sharedHeld, value, released, observed, nLockCalls>>

\* line 67 and line 80: FUTEX_WAIT_PRIVATE parks the caller only if the word
\* still equals `state`; otherwise the syscall returns at once.
FutexWait(t) ==
  /\ pc[t] \in {"xl_wait", "sl_wait"}
  /\ MutexOnly
  /\ pc' = [pc EXCEPT ![t] =
              IF futex = state[t]
                THEN (IF pc[t] = "xl_wait" THEN "xl_parked" ELSE "sl_parked")
                ELSE (IF pc[t] = "xl_wait" THEN "xl_cas" ELSE "sl_load")]
  /\ UNCHANGED <<futex, state, exclHeld, sharedHeld, value, released, observed,
                 nLockCalls>>

\* FUTEX_WAIT may return without a wake (a signal): the loops of lock() are
\* written for it.
SpuriousWake(t) ==
  /\ pc[t] \in {"xl_parked", "sl_parked"}
  /\ MutexOnly
  /\ pc' = [pc EXCEPT ![t] = AfterWait(pc[t])]
  /\ UNCHANGED <<futex, state, exclHeld, sharedHeld, value, released, observed,
                 nLockCalls>>

\* lines 81, 73-76: reload the word after the wait and test it again.
LockSharedLoad(t) ==
  /\ pc[t] = "sl_load"
  /\ MutexOnly
  /\ IF SharedAcquired(futex)
       THEN /\ pc' = [pc EXCEPT ![t] = "idle"]
            /\ state' = [state EXCEPT ![t] = 0]
            /\ sharedHeld' = [sharedHeld EXCEPT ![t] = @ + 1]
       ELSE /\ pc' = [pc EXCEPT ![t] = "sl_wait"]
            /\ state' = [state EXCEPT ![t] = futex]
            /\ UNCHANGED sharedHeld
  /\ UNCHANGED <<futex, exclHeld, value, released, observed, nLockCalls>>

\* The holder of the exclusive lock stores into the guarded datum.
Write(t) ==
  /\ pc[t] = "idle"
  /\ MutexOnly
  /\ exclHeld[t]
  /\ \E v \in Values : v # value /\ value' = v
  /\ UNCHANGED <<futex, pc, state, exclHeld, sharedHeld, released, observed,
                 nLockCalls>>

\* The test of line 95 on the word unlock(EXCLUSIVE) replaced.
MustWakeOnRequest(oldState) == HasBit(oldState, EXCLUSIVE_REQUESTED)
MustWake(oldState) == ClearBit(oldState, EXCLUSIVE_HELD) # 0

\* word & ~(EXCLUSIVE_HELD | EXCLUSIVE_REQUESTED), lines 93-94.
ExclusiveReleaseKeepsHeld(word) == ClearBit(word, EXCLUSIVE_REQUESTED)
ExclusiveRelease(word) ==
  ClearBit(ClearBit(word, EXCLUSIVE_HELD), EXCLUSIVE_REQUESTED)

\* unlock(EXCLUSIVE), lines 92-95: fetch_and with ~(HELD | REQUESTED).
ExclusiveAnd(t) ==
  /\ futex' = ExclusiveRelease(futex)
  /\ exclHeld' = [exclHeld EXCEPT ![t] = FALSE]
  /\ observed' = [observed EXCEPT ![t] = 0]
  /\ released' = value
  /\ IF MustWake(futex)
       THEN /\ pc' = [pc EXCEPT ![t] = "xu_wake"]
            /\ state' = [state EXCEPT ![t] = futex]
       ELSE /\ pc' = [pc EXCEPT ![t] = "idle"]
            /\ state' = [state EXCEPT ![t] = 0]
  /\ UNCHANGED <<sharedHeld, value, nLockCalls>>

\* The test of line 111 on the word unlock(SHARED) left.
LastReaderNoRequest(new) == new = 0
LastReader(new) == new = EXCLUSIVE_REQUESTED

\* unlock(SHARED), lines 107-111: subtract 1; only a result of exactly
\* EXCLUSIVE_REQUESTED goes on to the CAS.
SharedSub(t) ==
  /\ LET new == (futex - 1 + WordMod) % WordMod IN
       /\ futex' = new
       /\ sharedHeld' = [sharedHeld EXCEPT ![t] = @ - 1]
       /\ IF LastReader(new)
            THEN /\ pc' = [pc EXCEPT ![t] = "su_cas"]
                 /\ state' = [state EXCEPT ![t] = new]
            ELSE /\ pc' = [pc EXCEPT ![t] = "idle"]
                 /\ state' = [state EXCEPT ![t] = 0]
  /\ UNCHANGED <<exclHeld, value, released, observed, nLockCalls>>

\* A holder calls unlock(exclusivity) and executes its atomic release.
Unlock(t, exclusivity) ==
  /\ pc[t] = "idle"
  /\ MutexOnly
  /\ IF exclusivity = "EXCLUSIVE"
       THEN exclHeld[t] /\ ExclusiveAnd(t)
       ELSE sharedHeld[t] > 0 /\ SharedSub(t)

\* line 100 and line 116: FUTEX_WAKE_PRIVATE, INT_MAX.
FutexWake(t) ==
  /\ pc[t] \in {"xu_wake", "su_wake"}
  /\ MutexOnly
  /\ pc' = WakeAll(t, "idle")
  /\ state' = [state EXCEPT ![t] = 0]
  /\ UNCHANGED <<futex, exclHeld, sharedHeld, value, released, observed, nLockCalls>>

\* lines 112-117: CAS EXCLUSIVE_REQUESTED -> 0; wake only if it succeeded.
UnlockSharedCas(t) ==
  /\ pc[t] = "su_cas"
  /\ MutexOnly
  /\ IF futex = state[t]
       THEN /\ futex' = 0
            /\ pc' = [pc EXCEPT ![t] = "su_wake"]
            /\ UNCHANGED state
       ELSE /\ pc' = [pc EXCEPT ![t] = "idle"]
            /\ state' = [state EXCEPT ![t] = 0]
            /\ UNCHANGED futex
  /\ UNCHANGED <<exclHeld, sharedHeld, value, released, observed, nLockCalls>>

\* The steps a thread takes inside lock() and unlock() once it has entered.
MutexStep(t) ==
  \/ LockExclusiveCas(t)
  \/ LockExclusiveRequest(t)
  \/ FutexWait(t)
  \/ LockSharedLoad(t)
  \/ UnlockSharedCas(t)
  \/ FutexWake(t)

\* The calls and steps of the Mutex itself.
MutexCalls ==
  \E t \in Threads :
    \/ Lock(t, "EXCLUSIVE")
    \/ Lock(t, "SHARED")
    \/ Unlock(t, "EXCLUSIVE")
    \/ Unlock(t, "SHARED")
    \/ SpuriousWake(t)
    \/ MutexStep(t)

MutexNext ==
  \/ MutexCalls
  \/ \E t \in Threads : Write(t)

\* The conditions of the two KJ_ASSERTs of assertLockedByCaller(), lines 126
\* and 130, on the state word.
ExclusiveAssertionAnyBit(word) == word # 0
ExclusiveAssertion(word) == HasBit(word, EXCLUSIVE_HELD)
SharedAssertion(word) == SharedCount(word) # 0

\* assertLockedByCaller(exclusivity), lines 124-135, called by a thread that
\* is in no other call of the Mutex: it reads the word and returns, or fails
\* with "Tried to call getAlreadyLocked*() but lock is not held.".
AssertLockedByCaller(t, exclusivity) ==
  /\ pc[t] = "idle"
  /\ asserted' = [called |-> TRUE,
                  exclusivity |-> exclusivity,
                  passed |-> IF exclusivity = "EXCLUSIVE"
                               THEN ExclusiveAssertion(futex)
                               ELSE SharedAssertion(futex)]
  /\ UNCHANGED <<mutexVars, onceVars, resetOutcome, segments, flatVars, streamVars>>

\* The Mutex with the debugging assertions called at any time.
AssertNext ==
  \/ MutexNext
  \/ \E t \in Threads : AssertLockedByCaller(t, "EXCLUSIVE")
  \/ \E t \in Threads : AssertLockedByCaller(t, "SHARED")


\* The Mutex when nothing uses it.
MutexIdle == MutexInit

\* ------------------------------------------------------------------ Once

\* enum State of the futex-based Once, in declaration order.
UNINITIALIZED == 0
INITIALIZING == 1
INITIALIZING_WITH_WAITERS == 2
INITIALIZED == 3
DISABLED == 4

\* Once::Once(false).
OnceInit ==
  /\ onceFutex = UNINITIALIZED
  /\ opc = [t \in Threads |-> "idle"]
  /\ ostate = [t \in Threads |-> UNINITIALIZED]
  /\ ret = [t \in Threads |-> "none"]
  /\ initRuns = 0
  /\ nFailed = 0
  /\ resetCalled = FALSE
  /\ disableCalled = FALSE
  /\ nOnceCalls = 0
  /\ resetOutcome = NoReset

\* The Once when nothing uses it.
OnceIdle == OnceInit

\* Where FUTEX_WAIT returns to: line 177 in runOnce(), line 227 in disable().
OnceAfterWait(p) ==
  CASE p = "parked" -> "load"
    [] p = "d_parked" -> "d_load"
    [] OTHER -> p

\* lines 149 and 158: FUTEX_WAKE_PRIVATE with INT_MAX.
OnceWakeAll(waker, next) ==
  [t \in Threads |-> IF t = waker THEN next ELSE OnceAfterWait(opc[t])]

\* The dispatch of the waiter loop, lines 162-173, on the local `state`:
\* return, go to the CAS of line 166, or go to the wait of line 176.
LoopHead(st) ==
  CASE st = INITIALIZED \/ st = DISABLED -> "idle"
    [] st = INITIALIZING -> "wcas"
    [] OTHER -> "wait"

\* The thread leaves the waiter loop through `break`: runOnce() returns
\* without having run the caller's initializer.
Dispatch(t, st) ==
  /\ opc' = [opc EXCEPT ![t] = LoopHead(st)]
  /\ ostate' = [ostate EXCEPT ![t] = IF LoopHead(st) = "idle" THEN UNINITIALIZED ELSE st]
  /\ ret' = [ret EXCEPT ![t] = IF LoopHead(st) = "idle" THEN "skipped" ELSE @]

\* lines 139-141: CAS UNINITIALIZED -> INITIALIZING; the winner runs init,
\* a loser enters the waiter loop with the word it saw.
StartCasOkIgnoresDone(word) == word = UNINITIALIZED \/ word = INITIALIZED
StartCasOk(word) == word = UNINITIALIZED

StartCas(t) ==
  IF StartCasOk(onceFutex)
    THEN /\ onceFutex' = INITIALIZING
         /\ opc' = [opc EXCEPT ![t] = "init"]
         /\ ostate' = [ostate EXCEPT ![t] = UNINITIALIZED]
         /\ initRuns' = initRuns + 1
         /\ UNCHANGED ret
    ELSE /\ Dispatch(t, onceFutex)
         /\ UNCHANGED <<onceFutex, initRuns>>

\* A caller enters runOnce(init) and executes the CAS of line 140.
RunOnce(t) ==
  /\ opc[t] = "idle"
  /\ OnceOnly
  /\ nOnceCalls < MaxOnceCalls
  /\ nOnceCalls' = nOnceCalls + 1
  /\ StartCas(t)
  /\ UNCHANGED <<nFailed, resetCalled, disableCalled>>

\* line 182, goto startOver: the CAS of line 140 again.
StartOver(t) ==
  /\ opc[t] = "start"
  /\ OnceOnly
  /\ StartCas(t)
  /\ UNCHANGED <<nFailed, resetCalled, disableCalled, nOnceCalls>>

\* The test of lines 146-147 and 155-156 on the word the exchange replaced.
HadWaitersNever(old) == FALSE
HadWaiters(old) == old = INITIALIZING_WITH_WAITERS

\* The word the scope-failure handler of lines 144-151 stores.
RevertedPoisoned == INITIALIZED
Reverted == UNINITIALIZED

\* line 153 and lines 155-159: init.run() returns, the word is exchanged for
\* INITIALIZED, and waiters, if the old word says there are any, are owed a
\* wake.
InitReturns(t) ==
  /\ opc[t] = "init"
  /\ OnceOnly
  /\ onceFutex' = INITIALIZED
  /\ IF HadWaiters(onceFutex)
       THEN opc' = [opc EXCEPT ![t] = "init_wake"] /\ UNCHANGED ret
       ELSE opc' = [opc EXCEPT ![t] = "idle"] /\ ret' = [ret EXCEPT ![t] = "ran"]
  /\ UNCHANGED <<ostate, initRuns, nFailed, resetCalled, disableCalled, nOnceCalls>>

\* line 153 and lines 144-151: init.run() throws, the handler exchanges the
\* word for UNINITIALIZED, and the exception leaves runOnce() after the wake
\* the old word asks for.
InitThrows(t) ==
  /\ opc[t] = "init"
  /\ OnceOnly
  /\ onceFutex' = Reverted
  /\ nFailed' = nFailed + 1
  /\ IF HadWaiters(onceFutex)
       THEN opc' = [opc EXCEPT ![t] = "fail_wake"] /\ UNCHANGED ret
       ELSE opc' = [opc EXCEPT ![t] = "idle"] /\ ret' = [ret EXCEPT ![t] = "threw"]
  /\ UNCHANGED <<ostate, initRuns, resetCalled, disableCalled, nOnceCalls>>

\* line 149 and line 158: the wake, then runOnce() ends.
OnceWake(t) ==
  /\ opc[t] \in {"init_wake", "fail_wake"}
  /\ OnceOnly
  /\ opc' = OnceWakeAll(t, "idle")
  /\ ret' = [ret EXCEPT ![t] = IF opc[t] = "init_wake" THEN "ran" ELSE "threw"]
  /\ UNCHANGED <<onceFutex, ostate, initRuns, nFailed, resetCalled, disableCalled,
                 nOnceCalls>>

\* line 166: the (weak) CAS INITIALIZING -> INITIALIZING_WITH_WAITERS.  When
\* it fails `state` is reloaded and the loop starts again; a failure that
\* leaves `state` at INITIALIZING comes back here and changes nothing.
WaiterCas(t) ==
  /\ opc[t] = "wcas"
  /\ OnceOnly
  /\ IF onceFutex = INITIALIZING
       THEN /\ onceFutex' = INITIALIZING_WITH_WAITERS
            /\ opc' = [opc EXCEPT ![t] = "wait"]
            /\ UNCHANGED <<ostate, ret>>
       ELSE /\ Dispatch(t, onceFutex)
            /\ UNCHANGED onceFutex
  /\ UNCHANGED <<initRuns, nFailed, resetCalled, disableCalled, nOnceCalls>>

\* line 176 and line 226: FUTEX_WAIT_PRIVATE on INITIALIZING_WITH_WAITERS.
OnceWait(t) ==
  /\ opc[t] \in {"wait", "d_wait"}
  /\ OnceOnly
  /\ opc' = [opc EXCEPT ![t] =
               IF onceFutex = INITIALIZING_WITH_WAITERS
                 THEN (IF opc[t] = "wait" THEN "parked" ELSE "d_parked")
                 ELSE (IF opc[t] = "wait" THEN "load" ELSE "d_load")]
  /\ UNCHANGED <<onceFutex, ostate, ret, initRuns, nFailed, resetCalled,
                 disableCalled, nOnceCalls>>

\* FUTEX_WAIT may return without a wake.
OnceSpuriousWake(t) ==
  /\ opc[t] \in {"parked", "d_parked"}
  /\ OnceOnly
  /\ opc' = [opc EXCEPT ![t] = OnceAfterWait(opc[t])]
  /\ UNCHANGED <<onceFutex, ostate, ret, initRuns, nFailed, resetCalled,
                 disableCalled, nOnceCalls>>

\* lines 177-183: reload; UNINITIALIZED starts over, anything else goes
\* round the loop.
WaiterLoad(t) ==
  /\ opc[t] = "load"
  /\ OnceOnly
  /\ IF onceFutex = UNINITIALIZED
       THEN /\ opc' = [opc EXCEPT ![t] = "start"]
            /\ ostate' = [ostate EXCEPT ![t] = UNINITIALIZED]
            /\ UNCHANGED ret
       ELSE Dispatch(t, onceFutex)
  /\ UNCHANGED <<onceFutex, initRuns, nFailed, resetCalled, disableCalled, nOnceCalls>>

\* reset(), lines 188-194: CAS INITIALIZED -> UNINITIALIZED; the call fails
\* unless the CAS succeeded or the word was DISABLED.
ResetCasOkDisabled(word) == word = INITIALIZED \/ word = DISABLED
ResetCasOk(word) == word = INITIALIZED
\* line 192: the KJ_REQUIRE on the word the failed CAS saw.
ResetRequireNothing(st) == TRUE
ResetRequire(st) == st = DISABLED

\* A caller of reset(): one atomic operation, then the return or the failure.
Reset(t) ==
  /\ opc[t] = "idle"
  /\ UNCHANGED <<mutexVars, asserted, segments, flatVars, streamVars>>
  /\ nOnceCalls < MaxOnceCalls
  /\ nOnceCalls' = nOnceCalls + 1
  /\ resetCalled' = TRUE
  /\ onceFutex' = IF ResetCasOk(onceFutex) THEN UNINITIALIZED ELSE onceFutex
  /\ resetOutcome' =
       [called |-> TRUE,
        failure |-> IF ResetCasOk(onceFutex) \/ ResetRequire(onceFutex)
                      THEN NoFailure
                      ELSE "reset() called while not initialized."]
  /\ UNCHANGED <<opc, ostate, ret, initRuns, nFailed, disableCalled>>

\* The dispatch of disable()'s switch, lines 199-229, on the local `state`.
DisableHeadNoWait(st) ==
  CASE st = UNINITIALIZED \/ st = INITIALIZED \/ st = INITIALIZING -> "d_cas"
    [] st = INITIALIZING_WITH_WAITERS -> "d_wait"
    [] OTHER -> "idle"
DisableHead(st) ==
  CASE st = UNINITIALIZED \/ st = INITIALIZED -> "d_cas"
    [] st = INITIALIZING -> "d_wcas"
    [] st = INITIALIZING_WITH_WAITERS -> "d_wait"
    [] OTHER -> "idle"

DisableDispatch(t, st) ==
  /\ opc' = [opc EXCEPT ![t] = DisableHead(st)]
  /\ ostate' = [ostate EXCEPT ![t] = IF DisableHead(st) = "idle" THEN UNINITIALIZED ELSE st]

\* A caller enters disable() and loads the word, line 197.
Disable(t) ==
  /\ opc[t] = "idle"
  /\ OnceOnly
  /\ nOnceCalls < MaxOnceCalls
  /\ nOnceCalls' = nOnceCalls + 1
  /\ disableCalled' = TRUE
  /\ DisableDispatch(t, onceFutex)
  /\ UNCHANGED <<onceFutex, ret, initRuns, nFailed, resetCalled>>

\* line 207: CAS state -> DISABLED; on failure `state` is reloaded.
DisableCas(t) ==
  /\ opc[t] = "d_cas"
  /\ OnceOnly
  /\ IF onceFutex = ostate[t]
       THEN /\ onceFutex' = DISABLED
            /\ opc' = [opc EXCEPT ![t] = "idle"]
            /\ ostate' = [ostate EXCEPT ![t] = UNINITIALIZED]
       ELSE /\ DisableDispatch(t, onceFutex)
            /\ UNCHANGED onceFutex
  /\ UNCHANGED <<ret, initRuns, nFailed, resetCalled, disableCalled, nOnceCalls>>

\* line 217: CAS INITIALIZING -> INITIALIZING_WITH_WAITERS, then the wait.
DisableWaiterCas(t) ==
  /\ opc[t] = "d_wcas"
  /\ OnceOnly
  /\ IF onceFutex = INITIALIZING
       THEN /\ onceFutex' = INITIALIZING_WITH_WAITERS
            /\ opc' = [opc EXCEPT ![t] = "d_wait"]
            /\ UNCHANGED ostate
       ELSE /\ DisableDispatch(t, onceFutex)
            /\ UNCHANGED onceFutex
  /\ UNCHANGED <<ret, initRuns, nFailed, resetCalled, disableCalled, nOnceCalls>>

\* line 227: reload the word and go round the switch.
DisableLoad(t) ==
  /\ opc[t] = "d_load"
  /\ OnceOnly
  /\ DisableDispatch(t, onceFutex)
  /\ UNCHANGED <<onceFutex, ret, initRuns, nFailed, resetCalled, disableCalled,
                 nOnceCalls>>

\* The steps a thread takes inside runOnce() and disable() once it is in.
OnceStep(t) ==
  \/ StartOver(t)
  \/ InitReturns(t)
  \/ InitThrows(t)
  \/ OnceWake(t)
  \/ WaiterCas(t)
  \/ OnceWait(t)
  \/ WaiterLoad(t)
  \/ DisableCas(t)
  \/ DisableWaiterCas(t)
  \/ DisableLoad(t)

OnceNext ==
  \E t \in Threads :
    \/ RunOnce(t)
    \/ Reset(t)
    \/ Disable(t)
    \/ OnceSpuriousWake(t)
    \/ OnceStep(t)

InitOnce == OnceInit /\ MutexIdle /\ FramingIdle

SpecOnce == InitOnce /\ [][OnceNext]_vars

\* init.run() invocations that have returned normally.
InitsDone == initRuns - nFailed - Cardinality({t \in Threads : opc[t] = "init"})

\* What C2 says of a run: at most one init.run() in total, at most one
\* thread inside init.run(), and a runOnce() that has returned was preceded
\* by the completion of that one initializer, after which none runs.
SingleInitialization ==
  /\ initRuns <= 1
  /\ Cardinality({t \in Threads : opc[t] = "init"}) <= 1
  /\ \A t \in Threads : ret[t] # "none" => (initRuns = 1 /\ InitsDone = 1)

\* C2 as stated: whenever no initializer has failed and reset() has not
\* been called, runOnce() initializes exactly once.
C2_Original == (nFailed = 0 /\ ~resetCalled) => SingleInitialization

\* C2, amended: whenever no initializer has failed and neither reset() nor
\* disable() has been called, exactly one initializer is run in total, at
\* most one thread executes init at a time, no runOnce() returns before
\* that initializer has completed, and every later runOnce() returns
\* without running its initializer.
C2_SingleInitialization ==
  (nFailed = 0 /\ ~resetCalled /\ ~disableCalled) => SingleInitialization

\* Two threads called runOnce() concurrently: one ran the initializer, the
\* other waited for it and skipped its own; a third call then skipped too.
C2_Witness ==
  /\ nFailed = 0 /\ ~resetCalled /\ ~disableCalled
  /\ initRuns = 1
  /\ \E t, u \in Threads : ret[t] = "ran" /\ ret[u] = "skipped"
  /\ nOnceCalls >= 3
  /\ \A t \in Threads : opc[t] = "idle"

\* C3.  A failed initializer does not poison the latch: the step in which
\* init throws leaves the word UNINITIALIZED and the exception leaves
\* runOnce() (after the wake owed to waiters); a runOnce() whose CAS then
\* finds the word UNINITIALIZED runs its own initializer, and when that
\* one returns the word is INITIALIZED.
C3_NoPoisoning ==
  [][\A t \in Threads :
       /\ InitThrows(t) =>
            /\ onceFutex' = UNINITIALIZED
            /\ (opc'[t] = "fail_wake" \/ (opc'[t] = "idle" /\ ret'[t] = "threw"))
       /\ (OnceWake(t) /\ opc[t] = "fail_wake") =>
            (opc'[t] = "idle" /\ ret'[t] = "threw" /\ onceFutex' = onceFutex)
       /\ ((RunOnce(t) \/ StartOver(t)) /\ onceFutex = UNINITIALIZED) =>
            (opc'[t] = "init" /\ initRuns' = initRuns + 1)
       /\ InitReturns(t) => onceFutex' = INITIALIZED]_vars

\* The first runOnce() threw, the next one ran its own initializer, and the
\* latch is INITIALIZED.
C3_Witness ==
  /\ ~resetCalled /\ ~disableCalled
  /\ onceFutex = INITIALIZED
  /\ nFailed = 1 /\ initRuns = 2
  /\ \E t, u \in Threads : ret[t] = "threw" /\ ret[u] = "ran"

InitMutex == MutexInit /\ OnceIdle /\ FramingIdle

SpecMutex == InitMutex /\ [][MutexNext]_vars

\* The scheduler runs every thread that can take a step of a call it is in,
\* and a holder eventually calls unlock().  Entering lock() is never forced,
\* and a parked thread is not owed a spurious return.
MutexFairness ==
  \A t \in Threads :
    WF_vars(MutexStep(t) \/ Unlock(t, "EXCLUSIVE") \/ Unlock(t, "SHARED"))

\* Progress of lock() does not depend on what holders store in the datum:
\* the fair specification leaves the datum alone.
SpecMutexFair == InitMutex /\ [][MutexCalls]_vars /\ MutexFairness

\* Thread t is inside lock(): it has entered and has not returned.
InLock(t) ==
  pc[t] \in {"xl_cas", "xl_req", "xl_wait", "xl_parked",
             "sl_wait", "sl_parked", "sl_load"}
InLockExclusive(t) == pc[t] \in {"xl_cas", "xl_req", "xl_wait", "xl_parked"}

\* Thread t holds the lock exclusively / in shared mode: it has returned
\* from lock() and has not executed the atomic release of its unlock().
HoldsExclusive(t) == exclHeld[t]
HoldsShared(t) == sharedHeld[t] > 0

\* C1.  Mutual exclusion: while a thread holds the lock exclusively, no
\* other thread holds it exclusively or shared, and the datum the holder
\* read when lock(EXCLUSIVE) returned is the one the previous exclusive
\* holder left.
C1_MutualExclusion ==
  \A t \in Threads :
    HoldsExclusive(t) =>
      /\ \A u \in Threads \ {t} : ~HoldsExclusive(u) /\ ~HoldsShared(u)
      /\ observed[t] = released

\* An exclusive waiter has acquired after another holder stored a new value,
\* while a third locker is parked behind it.
C1_Witness ==
  \E t, u \in Threads :
    /\ HoldsExclusive(t) /\ observed[t] = 1 /\ released = 1
    /\ pc[u] \in {"xl_parked", "sl_parked"}

\* C4.  No missed wakeups: with finitely many lock() calls and holders that
\* unlock, every lock(EXCLUSIVE) and lock(SHARED) call returns; from some
\* point on no thread is inside lock(), parked or not.
C4_NoMissedWakeups == <>[](\A t \in Threads : ~InLock(t))

\* A shared and an exclusive locker are parked behind an exclusive holder.
C4_Witness ==
  \E t, u, v \in Threads :
    /\ HoldsExclusive(t)
    /\ pc[u] = "xl_parked"
    /\ pc[v] = "sl_parked"

\* C5.  Exclusive blocked by shared: lock(EXCLUSIVE) never returns while a
\* thread holds the lock in shared mode, and an exclusive locker parked
\* behind shared holders eventually acquires the lock.
C5_ExclusiveBlockedByShared ==
  /\ [][\A t \in Threads :
         (~exclHeld[t] /\ exclHeld'[t]) => \A u \in Threads : ~HoldsShared(u)]_vars
  /\ \A t \in Threads :
       (pc[t] = "xl_parked" /\ \E u \in Threads : HoldsShared(u)) ~> HoldsExclusive(t)

\* The last shared holder has released and is about to wake the exclusive
\* locker that parked behind it.
C5_Witness ==
  \E t, u \in Threads :
    /\ pc[t] = "xl_parked"
    /\ state[t] = EXCLUSIVE_REQUESTED + 1
    /\ pc[u] = "su_wake"
    /\ futex = 0

\* C6.  Reader-friendly acquisition: a lock(SHARED) call whose increment
\* executes while no thread holds the lock exclusively returns at once,
\* EXCLUSIVE_REQUESTED set or not.
C6_ReaderFriendly ==
  [][\A t \in Threads :
       (Lock(t, "SHARED") /\ \A u \in Threads : ~HoldsExclusive(u))
         => (pc'[t] = "idle" /\ sharedHeld'[t] = sharedHeld[t] + 1)]_vars

\* A thread holds two shared locks, the second taken after an exclusive
\* locker parked on the word EXCLUSIVE_REQUESTED | 1.
C6_Witness ==
  \E t, u \in Threads :
    /\ sharedHeld[t] = 2
    /\ pc[u] = "xl_parked"
    /\ state[u] = EXCLUSIVE_REQUESTED + 1
    /\ futex = EXCLUSIVE_REQUESTED + 2

\* ------------------------------------------------ capnp segment framing

\* Width of the modelled uint32_t (the source has 32 bits).  Every 32-bit
\* value is computed modulo 2^UintBits; size_t is 64 bits wide in the source
\* and no sum of fewer than 512 uint32_t values wraps it, so size_t values are
\* plain integers.
UintBits == 16
UintMod == 2^UintBits
\* A value stored into, or computed in, a uint32_t.
Uint(n) == n % UintMod

\* Segments of a message, and words of a segment, in the messages framed.
MaxSegments == 3
MaxSegmentWords == 2
\* Words of a flat array that does not come from messageToFlatArray.
MaxArrayWords == 3

\* A word is a pair of 32-bit values: the segment table is read through it
\* as WireValue<uint32_t>[2].  A word nobody has written yet is Garbage.
Garbage == <<-1, -1>>
\* Word k of segment i carries its place, so a misplaced word shows.
DataWord(i, k) == <<i, k>>
Message(sizes) ==
  [i \in 1..Len(sizes) |-> [k \in 1..sizes[i] |-> DataWord(i, k)]]
SizeLists ==
  UNION {[1..n -> 0..MaxSegmentWords] : n \in 0..MaxSegments}
Messages == {Message(sizes) : sizes \in SizeLists}

\* The words a view shows; a word outside the underlying array is Garbage.
ViewWords(words, view) ==
  [k \in 1..view.size |->
     IF view.begin + k \in DOMAIN words THEN words[view.begin + k]
     ELSE Garbage]

RECURSIVE SumSizes(_, _)
\* The loop of computeSerializedSizeInWords from segment i on.
SumSizes(segs, i) ==
  IF i > Len(segs) THEN 0 ELSE Len(segs[i]) + SumSizes(segs, i + 1)

\* The KJ_REQUIRE of computeSerializedSizeInWords (line 124, reached from
\* messageToFlatArray at line 92) and of writeMessage (line 249).
InitializedAlways(segs) == TRUE
Initialized(segs) == Len(segs) > 0

\* computeSerializedSizeInWords, for a non-empty list.
computeSerializedSizeInWords(segs) ==
  Len(segs) \div 2 + 1 + SumSizes(segs, 1)

\* table[i] as messageToFlatArray and writeMessage set it.
TableEntryCount(segs, i) ==
  IF i = 0 THEN Uint(Len(segs))
  ELSE IF i <= Len(segs) THEN Uint(Len(segs[i]))
  ELSE 0
TableEntry(segs, i) ==
  IF i = 0 THEN Uint(Len(segs) - 1)
  ELSE IF i <= Len(segs) THEN Uint(Len(segs[i]))
  ELSE 0

\* Word k (from 0) of the table: entries 2k and 2k+1.
TableWord(segs, k) == <<TableEntry(segs, 2 * k), TableEntry(segs, 2 * k + 1)>>

RECURSIVE CopySegments(_, _, _, _)
\* The memcpy loop of messageToFlatArray from segment i on, dst words in.
CopySegments(result, segs, i, dst) ==
  IF i > Len(segs) THEN result
  ELSE CopySegments(
         [k \in DOMAIN result |->
            IF dst < k /\ k <= dst + Len(segs[i]) THEN segs[i][k - dst]
            ELSE result[k]],
         segs, i + 1, dst + Len(segs[i]))

\* Where the payload starts: result.begin() + segments.size() / 2 + 1.
PayloadStartBroken(segs) == (Len(segs) + 1) \div 2 + 1
PayloadStart(segs) == Len(segs) \div 2 + 1

\* messageToFlatArray, for a non-empty list.
messageToFlatArray(segs) ==
  LET size == computeSerializedSizeInWords(segs)
      table == [k \in 1..size |->
                  IF k <= Len(segs) \div 2 + 1 THEN TableWord(segs, k - 1)
                  ELSE Garbage]
  IN CopySegments(table, segs, 1, PayloadStart(segs))

\* table[i] of FlatArrayMessageReader: WireValue<uint32_t> i of the array.
Table(arr, i) == arr[(i \div 2) + 1][(i % 2) + 1]

\* The fields of a FlatArrayMessageReader when its constructor is left, `end`
\* counted in words from array.begin(), with the failure reported on the way.
FlatFields(failure, segment0, moreSegments, end) ==
  [constructed |-> TRUE, failure |-> failure, segment0 |-> segment0,
   moreSegments |-> moreSegments, end |-> end]

RECURSIVE FlatMoreSegments(_, _, _, _, _, _)
\* The loop over the segments after the first, from segment i on.
FlatMoreSegments(arr, segmentCount, i, offset, segment0, moreSegments) ==
  IF i >= segmentCount
  THEN FlatFields(NoFailure, segment0, moreSegments, offset)
  ELSE LET segmentSize == Table(arr, i + 1)
       IN IF Len(arr) >= offset + segmentSize
          THEN FlatMoreSegments(
                 arr, segmentCount, i + 1, offset + segmentSize, segment0,
                 Append(moreSegments, Slice(offset, offset + segmentSize)))
          ELSE FlatFields("Message ends prematurely.", segment0, <<>>,
                          Len(arr))

\* segmentCount = table[0].get() + 1, in a uint.
SegmentCount(field) == Uint(field + 1)

\* The constructor of FlatArrayMessageReader over the words arr.
FlatConstructor(arr) ==
  IF Len(arr) < 1 THEN FlatFields(NoFailure, NullPtr, <<>>, Len(arr))
  ELSE
    LET segmentCount == SegmentCount(Table(arr, 0))
        offset == segmentCount \div 2 + 1
    IN
    IF ~(Len(arr) >= offset)
    THEN FlatFields("Message ends prematurely in segment table.", NullPtr,
                    <<>>, Len(arr))
    ELSE IF segmentCount = 0
    THEN FlatFields(NoFailure, NullPtr, <<>>, offset)
    ELSE
      LET segmentSize == Table(arr, 1)
          segment0 == Slice(offset, offset + segmentSize)
      IN
      IF ~(Len(arr) >= offset + segmentSize)
      THEN FlatFields("Message ends prematurely in first segment.", NullPtr,
                      <<>>, Len(arr))
      ELSE IF segmentCount > 1
      THEN FlatMoreSegments(arr, segmentCount, 1, offset + segmentSize,
                            segment0, <<>>)
      ELSE FlatFields(NoFailure, segment0, <<>>, offset + segmentSize)

\* FlatArrayMessageReader::getSegment(id) on a reader with these fields.
FlatGetSegment(fields, id) ==
  IF id = 0 THEN fields.segment0
  ELSE IF id <= Len(fields.moreSegments) THEN fields.moreSegments[id]
  ELSE NullPtr

\* Flat arrays handed to the reader that no messageToFlatArray produced.
ArrayEntries == {0, 1, 2, UintMod - 1}
ArrayWords == ArrayEntries \X ArrayEntries
Arrays == UNION {[1..n -> ArrayWords] : n \in 0..MaxArrayWords}

\* Segment ids asked of a reader: those of the largest message and one more.
SegmentIds == 0..MaxSegments

FlatInit ==
  /\ flatFailure = NoFailure
  /\ flatReader = NoReader
  /\ flatGot = NoAnswer
  /\ \/ /\ segments \in Messages
        /\ array = <<>>
        /\ fpc = "start"
     \/ /\ segments = <<>>
        /\ array \in Arrays
        /\ fpc = "given"

\* A call of messageToFlatArray(segments).
MessageToFlatArray ==
  /\ FlatOnly
  /\ fpc = "start"
  /\ IF Initialized(segments)
     THEN /\ array' = messageToFlatArray(segments)
          /\ fpc' = "built"
          /\ UNCHANGED flatFailure
     ELSE /\ flatFailure' = "Tried to serialize uninitialized message."
          /\ fpc' = "failed"
          /\ UNCHANGED array
  /\ UNCHANGED <<flatReader, flatGot>>

\* options.traversalLimitInWords is SmallLimit or what the largest message
\* framed needs.
SmallLimit == 1
TraversalLimits == {SmallLimit, MaxSegments * MaxSegmentWords}

\* FlatArrayMessageReader(array, options).  The options go to the base
\* MessageReader (line 31) and the constructor does not read them.  A failure
\* reported by KJ_REQUIRE either leaves the constructor as an exception or,
\* where exceptions are recovered from, runs the recovery block, which
\* returns from the constructor.
FlatArrayMessageReader ==
  /\ FlatOnly
  /\ fpc \in {"built", "given"}
  /\ \E limit \in TraversalLimits :
       flatReader' = FlatConstructor(array)
                       @@ [options |-> [traversalLimitInWords |-> limit]]
  /\ \E recover \in BOOLEAN :
       fpc' = IF flatReader'.failure # NoFailure /\ ~recover THEN "thrown"
              ELSE "constructed"
  /\ UNCHANGED <<array, flatFailure, flatGot>>

\* getSegment(id) on the constructed reader.
FlatGet(id) ==
  /\ FlatOnly
  /\ fpc = "constructed"
  /\ flatGot' = [asked |-> TRUE, id |-> id,
                 words |-> ViewWords(array, FlatGetSegment(flatReader, id))]
  /\ UNCHANGED <<array, fpc, flatFailure, flatReader>>

FlatNext ==
  \/ MessageToFlatArray
  \/ FlatArrayMessageReader
  \/ \E id \in SegmentIds : FlatGet(id)

InitFlat == FlatInit /\ MutexIdle /\ OnceIdle /\ StreamIdle

SpecFlat == InitFlat /\ [][FlatNext]_vars

\* What getSegment(id) of a reader of the message segs has to show.
SegmentOf(segs, id) == IF id < Len(segs) THEN segs[id + 1] ELSE <<>>

\* C7: flat-array round trip.  For every non-empty list of segments, the
\* FlatArrayMessageReader constructed over messageToFlatArray(segments)
\* reports no failure (so it never throws), getEnd() is the end of the array,
\* getSegment(i) shows exactly the words of segments[i] for every i below the
\* number of segments and nothing for every i from there on, and that is what
\* the getSegment calls made have answered.
C7_FlatRoundTrip ==
  Len(segments) > 0 =>
    /\ fpc \notin {"failed", "thrown"}
    /\ fpc = "constructed" =>
         /\ flatReader.failure = NoFailure
         /\ flatReader.end = Len(array)
         /\ \A id \in SegmentIds :
              ViewWords(array, FlatGetSegment(flatReader, id))
                = SegmentOf(segments, id)
         /\ flatGot.asked => flatGot.words = SegmentOf(segments, flatGot.id)

\* A three-segment message whose last segment was asked for and shown.
C7_Witness ==
  /\ Len(segments) = 3
  /\ Len(segments[1]) = 2 /\ Len(segments[2]) = 0 /\ Len(segments[3]) = 1
  /\ fpc = "constructed"
  /\ flatGot.asked
  /\ flatGot.id = 2
  /\ flatGot.words = <<DataWord(3, 1)>>

\* ------------------------------------------------------- stream framing

\* sizeof(word), sizeof(WireValue<uint32_t>), and the segments a stream
\* message must stay below.
BytesPerWord == 8
BytesPerEntry == 4
SegmentCountLimit == 512

\* Words after the first of a stream that no writeMessage produced.
MaxTailWords == 2
\* The caller's scratch space is empty or ScratchWords long.
ScratchWords == 2

\* The pieces writeMessage hands to the sink: the table, of
\* (segments.size() + 2) & ~1 entries, then every segment.
Pieces(segs) ==
  LET entries == (Len(segs) + 2) - ((Len(segs) + 2) % 2)
  IN <<[k \in 1..(entries \div 2) |-> TableWord(segs, k - 1)]>> \o segs

RECURSIVE Gather(_, _)
\* OutputStream::write(pieces): the pieces from piece i on, in order.
Gather(pieces, i) ==
  IF i > Len(pieces) THEN <<>> ELSE pieces[i] \o Gather(pieces, i + 1)

\* writeMessage(output, segments), before any reader is on the stream.
WriteMessage ==
  /\ StreamOnly
  /\ rpc = "none"
  /\ writes = 0
  /\ writeFailure = NoFailure
  /\ IF Initialized(segments)
     THEN /\ stream' = stream \o Gather(Pieces(segments), 1)
          /\ writes' = writes + 1
          /\ UNCHANGED writeFailure
     ELSE /\ writeFailure' = "Tried to serialize uninitialized message."
          /\ UNCHANGED <<stream, writes>>
  /\ UNCHANGED <<consumed, rpc, options, exactReads, scratchSpace, reader,
                 failures, got>>

\* InputStream: the bytes left, the word and the 32-bit entry at a byte
\* position (a word that is not all there, or not aligned, is Garbage), and
\* the counts a read(buffer, minBytes, maxBytes) may return (minBytes alone
\* on a stream of exactReads); with fewer than minBytes left the read raises,
\* having taken what was left.
Available == BytesPerWord * Len(stream) - consumed
StreamWordAt(pos) ==
  IF pos % BytesPerWord = 0 /\ (pos \div BytesPerWord) + 1 \in DOMAIN stream
  THEN stream[(pos \div BytesPerWord) + 1]
  ELSE Garbage
StreamEntryAt(pos) ==
  StreamWordAt(pos - (pos % BytesPerWord))
    [((pos % BytesPerWord) \div BytesPerEntry) + 1]
ReadAmounts(minBytes, maxBytes) ==
  {n \in minBytes..maxBytes : n <= Available /\ (exactReads => n = minBytes)}
Raised ==
  /\ rpc' = "raised"
  /\ consumed' = consumed + Available

\* The words of the buffer `space` after n bytes of the stream were read to
\* its byte pos: a word is there once its last byte is.
ReadInto(space, pos, n) ==
  [k \in DOMAIN space |->
     IF BytesPerWord * k > pos /\ BytesPerWord * k <= pos + n
     THEN StreamWordAt(consumed + BytesPerWord * (k - 1) - pos)
     ELSE space[k]]

\* segmentCount < 512
WithinSegmentLimitInclusive(segmentCount) == segmentCount <= SegmentCountLimit
WithinSegmentLimit(segmentCount) == segmentCount < SegmentCountLimit

\* The constructor of InputStreamMessageReader up to the check of the
\* segment count: it reads the first word and reports the failure.
InputStreamMessageReader ==
  /\ StreamOnly
  /\ rpc = "none"
  /\ IF Available < 2 * BytesPerEntry
     THEN /\ Raised
          /\ UNCHANGED <<reader, failures>>
     ELSE LET firstWord == StreamWordAt(consumed)
              segmentCount == SegmentCount(firstWord[1])
              segment0Size == IF segmentCount = 0 THEN 0 ELSE firstWord[2]
          IN /\ consumed' = consumed + 2 * BytesPerEntry
             /\ reader' = [reader EXCEPT !.segmentCount = segmentCount,
                                         !.segment0Size = segment0Size,
                                         !.totalWords = segment0Size]
             /\ IF WithinSegmentLimit(segmentCount)
                THEN /\ rpc' = "sizes"
                     /\ UNCHANGED failures
                ELSE /\ rpc' = "too_many"
                     /\ failures' =
                          Append(failures, "Message has too many segments.")
  /\ UNCHANGED <<stream, writes, writeFailure, options, exactReads,
                 scratchSpace, got>>

\* What follows the report of too many segments: the exception leaves the
\* constructor, or the recovery block runs.
TooManySegments ==
  /\ StreamOnly
  /\ rpc = "too_many"
  /\ \/ /\ rpc' = "thrown"
        /\ UNCHANGED reader
     \/ /\ rpc' = "sizes"
        /\ reader' = [reader EXCEPT !.segmentCount = 1, !.segment0Size = 1]
  /\ UNCHANGED <<stream, consumed, writes, writeFailure, options, exactReads,
                 scratchSpace, failures, got>>

RECURSIVE SumFirst(_, _)
\* moreSizes[0] + ... + moreSizes[n - 1]
SumFirst(moreSizes, n) ==
  IF n <= 0 THEN 0 ELSE moreSizes[n] + SumFirst(moreSizes, n - 1)

\* The sizes added to totalWords: those of all segments but the first.
MoreSizesCountedShort(segmentCount) == segmentCount - 2
MoreSizesCounted(segmentCount) == segmentCount - 1

\* totalWords <= options.traversalLimitInWords
WithinTraversalLimit(totalWords, limit) == totalWords <= limit

\* The constructor from the read of the other segments' sizes to the check
\* of the traversal limit.
ReadMoreSizes ==
  /\ StreamOnly
  /\ rpc = "sizes"
  /\ LET segmentCount == reader.segmentCount
         entries == segmentCount - (segmentCount % 2)
         nbytes == IF segmentCount > 1 THEN entries * BytesPerEntry ELSE 0
     IN IF Available < nbytes
        THEN /\ Raised
             /\ UNCHANGED <<reader, failures>>
        ELSE LET moreSizes ==
                   IF segmentCount > 1
                   THEN [i \in 1..entries |->
                           StreamEntryAt(consumed + BytesPerEntry * (i - 1))]
                   ELSE <<>>
                 totalWords ==
                   reader.totalWords
                     + (IF segmentCount > 1
                        THEN SumFirst(moreSizes, MoreSizesCounted(segmentCount))
                        ELSE 0)
             IN /\ consumed' = consumed + nbytes
                /\ reader' = [reader EXCEPT !.moreSizes = moreSizes,
                                            !.totalWords = totalWords]
                /\ IF WithinTraversalLimit(totalWords,
                                           options.traversalLimitInWords)
                   THEN /\ rpc' = "allocate"
                        /\ UNCHANGED failures
                   ELSE /\ rpc' = "too_large"
                        /\ failures' = Append(failures, "Message is too large.")
  /\ UNCHANGED <<stream, writes, writeFailure, options, exactReads,
                 scratchSpace, got>>

\* kj::min
Min(a, b) == IF a < b THEN a ELSE b

\* What follows the report of too large a message.
MessageTooLarge ==
  /\ StreamOnly
  /\ rpc = "too_large"
  /\ \/ /\ rpc' = "thrown"
        /\ UNCHANGED reader
     \/ /\ rpc' = "allocate"
        /\ LET segment0Size ==
                 Min(reader.segment0Size, options.traversalLimitInWords)
           IN reader' = [reader EXCEPT !.segmentCount = 1,
                                       !.segment0Size = segment0Size,
                                       !.totalWords = segment0Size]
  /\ UNCHANGED <<stream, consumed, writes, writeFailure, options, exactReads,
                 scratchSpace, failures, got>>

RECURSIVE StreamMoreSegments(_, _, _, _, _)
\* The loop that slices scratchSpace into the segments after the first,
\* from moreSizes[i] on.
StreamMoreSegments(moreSizes, segmentCount, i, offset, moreSegments) ==
  IF i >= segmentCount - 1 THEN moreSegments
  ELSE LET segmentSize == moreSizes[i + 1]
       IN StreamMoreSegments(
            moreSizes, segmentCount, i + 1, offset + segmentSize,
            Append(moreSegments, Slice(offset, offset + segmentSize)))

\* The constructor from the allocation of ownedSpace to the segment views.
\* A slice that runs past scratchSpace is a view of words that are not there
\* where ArrayPtr::slice does not check its bounds, and an exception where it
\* does (builds with KJ_IREQUIRE enabled).
Allocate ==
  /\ StreamOnly
  /\ rpc = "allocate"
  /\ LET owned == Len(scratchSpace) < reader.totalWords
     IN /\ scratchSpace' =
             IF owned THEN [k \in 1..reader.totalWords |-> Garbage]
             ELSE scratchSpace
        /\ reader' =
             [reader EXCEPT
                !.ownedSpace = IF owned THEN reader.totalWords ELSE 0,
                !.segment0 = Slice(0, reader.segment0Size),
                !.moreSegments =
                  IF reader.segmentCount > 1
                  THEN StreamMoreSegments(reader.moreSizes, reader.segmentCount,
                                          0, reader.segment0Size, <<>>)
                  ELSE <<>>]
  /\ \/ /\ rpc' = "payload"
        /\ UNCHANGED failures
     \/ /\ reader.segment0Size > Len(scratchSpace')
        /\ rpc' = "thrown"
        /\ failures' = Append(failures, "Out-of-bounds ArrayPtr::slice().")
  /\ UNCHANGED <<stream, consumed, writes, writeFailure, options, exactReads,
                 got>>

\* The bytes the constructor asks for at least of a message of several
\* segments: those of the first segment.
FirstReadMinWhole(segment0Size, totalWords) == totalWords * BytesPerWord
FirstReadMin(segment0Size, totalWords) == segment0Size * BytesPerWord

\* The end of the constructor: the read of the whole single segment, or of
\* the first segment and as much more as the stream gives.  readPos starts
\* at scratchSpace.begin(), which is nullptr for a scratch space of no words
\* (nothing is then left to read).
ReadPayload ==
  /\ StreamOnly
  /\ rpc = "payload"
  /\ IF reader.segmentCount = 1
     THEN LET nbytes == reader.totalWords * BytesPerWord
          IN IF Available < nbytes
             THEN /\ Raised
                  /\ UNCHANGED <<scratchSpace, reader>>
             ELSE /\ scratchSpace' = ReadInto(scratchSpace, 0, nbytes)
                  /\ consumed' = consumed + nbytes
                  /\ rpc' = "constructed"
                  /\ UNCHANGED reader
     ELSE IF reader.segmentCount > 1
     THEN LET minBytes == FirstReadMin(reader.segment0Size, reader.totalWords)
              maxBytes == reader.totalWords * BytesPerWord
          IN IF Available < minBytes
             THEN /\ Raised
                  /\ UNCHANGED <<scratchSpace, reader>>
             ELSE \E n \in ReadAmounts(minBytes, maxBytes) :
                    /\ scratchSpace' = ReadInto(scratchSpace, 0, n)
                    /\ consumed' = consumed + n
                    /\ reader' = [reader EXCEPT !.readPos =
                                     IF Len(scratchSpace) = 0 THEN NullPos
                                     ELSE n]
                    /\ rpc' = "constructed"
     ELSE /\ rpc' = "constructed"
          /\ UNCHANGED <<consumed, scratchSpace, reader>>
  /\ UNCHANGED <<stream, writes, writeFailure, options, exactReads, failures,
                 got>>

\* The end of a view, in bytes from scratchSpace.begin().
EndOf(view) == BytesPerWord * (view.begin + view.size)

\* The bytes a lazy read asks for at least: up to the end of the segment.
LazyMinBytesNone(segmentEnd, readPos) == 0
LazyMinBytes(segmentEnd, readPos) == segmentEnd - readPos

\* InputStreamMessageReader::getSegment(id)
GetSegment(id) ==
  /\ StreamOnly
  /\ rpc = "constructed"
  /\ IF id > Len(reader.moreSegments)
     THEN /\ got' = [asked |-> TRUE, id |-> id, words |-> <<>>]
          /\ UNCHANGED <<consumed, rpc, scratchSpace, reader>>
     ELSE LET segment ==
                IF id = 0 THEN reader.segment0 ELSE reader.moreSegments[id]
              segmentEnd == EndOf(segment)
              allEnd == EndOf(reader.moreSegments[Len(reader.moreSegments)])
              minBytes == LazyMinBytes(segmentEnd, reader.readPos)
          IN IF reader.readPos # NullPos /\ reader.readPos < segmentEnd
             THEN IF Available < minBytes
                  THEN /\ Raised
                       /\ UNCHANGED <<scratchSpace, reader, got>>
                  ELSE \E n \in ReadAmounts(minBytes, allEnd - reader.readPos) :
                         /\ scratchSpace' =
                              ReadInto(scratchSpace, reader.readPos, n)
                         /\ consumed' = consumed + n
                         /\ reader' =
                              [reader EXCEPT !.readPos = reader.readPos + n]
                         /\ got' = [asked |-> TRUE, id |-> id,
                                    words |-> ViewWords(scratchSpace', segment)]
                         /\ UNCHANGED rpc
             ELSE /\ got' = [asked |-> TRUE, id |-> id,
                             words |-> ViewWords(scratchSpace, segment)]
                  /\ UNCHANGED <<consumed, rpc, scratchSpace, reader>>
  /\ UNCHANGED <<stream, writes, writeFailure, options, exactReads, failures>>

\* The bytes the destructor skips: allEnd - readPos.
UnreadBytesNone(allEnd, readPos) == 0
UnreadBytes(allEnd, readPos) == allEnd - readPos

\* ~InputStreamMessageReader: skip what the lazy reads left of the message
\* (a skip past the end of the stream takes what is left, and raises).
Destroy ==
  /\ StreamOnly
  /\ rpc = "constructed"
  /\ rpc' = "destroyed"
  /\ IF reader.readPos # NullPos
     THEN LET allEnd == EndOf(reader.moreSegments[Len(reader.moreSegments)])
          IN consumed' =
               consumed + Min(UnreadBytes(allEnd, reader.readPos), Available)
     ELSE UNCHANGED consumed
  /\ UNCHANGED <<stream, writes, writeFailure, options, exactReads,
                 scratchSpace, reader,
                 failures, got>>

\* Streams handed to the reader that no writeMessage produced: any first
\* word, up to MaxTailWords more, and one whole table of as many segments as
\* the limit, each of one word.
CountFields ==
  {0, 1, 2, SegmentCountLimit - 2, SegmentCountLimit - 1, SegmentCountLimit,
   UintMod - 1}
SizeFields == {0, 1, 2, UintMod - 1}
TailWords == {<<0, 0>>, <<1, 2>>, <<UintMod - 1, 0>>}
Tails == UNION {[1..n -> TailWords] : n \in 0..MaxTailWords}
ManySegments ==
  [k \in 1..((SegmentCountLimit \div 2) + 2) |->
     IF k = 1 THEN <<SegmentCountLimit - 1, 1>>
     ELSE IF k = (SegmentCountLimit \div 2) + 1 THEN <<1, 0>>
     ELSE <<1, 1>>]
Streams ==
  {<<>>, ManySegments}
    \cup {<<h>> \o t : h \in CountFields \X SizeFields, t \in Tails}

ScratchSizes == {0, ScratchWords}

StreamInit ==
  /\ consumed = 0
  /\ writes = 0
  /\ writeFailure = NoFailure
  /\ rpc = "none"
  /\ options \in {[traversalLimitInWords |-> l] : l \in TraversalLimits}
  /\ exactReads \in BOOLEAN
  /\ scratchSpace \in {[k \in 1..n |-> Garbage] : n \in ScratchSizes}
  /\ reader = NewReader
  /\ failures = <<>>
  /\ got = NoAnswer
  /\ \/ /\ segments \in Messages
        /\ stream = <<>>
     \/ /\ segments = <<>>
        /\ stream \in Streams

StreamNext ==
  \/ WriteMessage
  \/ InputStreamMessageReader
  \/ TooManySegments
  \/ ReadMoreSizes
  \/ MessageTooLarge
  \/ Allocate
  \/ ReadPayload
  \/ \E id \in SegmentIds : GetSegment(id)
  \/ Destroy

InitStream == StreamInit /\ MutexIdle /\ OnceIdle /\ FlatIdle

SpecStream == InitStream /\ [][StreamNext]_vars

\* C8: stream round trip.  For every non-empty list of fewer than 512
\* segments whose sizes sum to at most options.traversalLimitInWords, once
\* writeMessage has written it to the stream the InputStreamMessageReader on
\* that stream reports no failure, no read of it raises, whatever the stream
\* returns between the minimum and the maximum asked, and every getSegment(i)
\* answers exactly the words of segments[i] (nothing for i from the number
\* of segments on), in whatever order the segments are asked for.
C8_StreamRoundTrip ==
  ( /\ writes = 1
    /\ Len(segments) < SegmentCountLimit
    /\ SumSizes(segments, 1) <= options.traversalLimitInWords )
  => /\ failures = <<>>
     /\ rpc \notin {"too_many", "too_large", "thrown", "raised"}
     /\ got.asked => got.words = SegmentOf(segments, got.id)

\* The last of three segments answered after the stream gave, at
\* construction, less than the whole message.
C8_Witness ==
  /\ writes = 1
  /\ Len(segments) = 3
  /\ Len(segments[1]) = 1 /\ Len(segments[2]) = 2 /\ Len(segments[3]) = 2
  /\ rpc = "constructed"
  /\ reader.ownedSpace = 5
  /\ reader.readPos = 5 * BytesPerWord
  /\ got.asked
  /\ got.id = 2
  /\ got.words = <<DataWord(3, 1), DataWord(3, 2)>>

\* The segment count the first word of the stream declares.
DeclaredCount == SegmentCount(stream[1][1])

\* Nothing allocated by the constructor, nothing read to the scratch space.
NothingAllocated ==
  /\ reader.ownedSpace = 0
  /\ reader.moreSegments = <<>>
  /\ reader.segment0 = NullPtr
  /\ reader.readPos = NullPos
  /\ \A k \in DOMAIN scratchSpace : scratchSpace[k] = Garbage

\* C9: segment-count cap.  Every header that declares 512 segments or more
\* gets the failure "Message has too many segments." as the first failure
\* of the constructor, and when it is reported exactly the first 8 bytes of
\* the stream have been read and neither a buffer nor a segment table is
\* allocated.
C9_SegmentCountCap ==
  /\ ( /\ rpc # "none"
       /\ Len(stream) >= 1
       /\ ~(DeclaredCount < SegmentCountLimit) )
     => /\ Len(failures) >= 1
        /\ failures[1] = "Message has too many segments."
  /\ rpc = "too_many" =>
       /\ consumed = 2 * BytesPerEntry
       /\ NothingAllocated

\* A header of exactly 512 segments at the moment its failure is reported.
C9_Witness ==
  /\ rpc = "too_many"
  /\ DeclaredCount = SegmentCountLimit
  /\ reader.segmentCount = SegmentCountLimit
  /\ failures = <<"Message has too many segments.">>

\* The whole segment table is on the stream.
TableComplete ==
  /\ Len(stream) >= 1
  /\ Len(stream) >= (DeclaredCount \div 2) + 1

RECURSIVE DeclaredSum(_, _)
\* The sum of table entries lo .. hi - 1 of the stream; entry i + 1 is the
\* size the table declares for segment i.
DeclaredSum(lo, hi) ==
  IF hi <= lo THEN 0
  ELSE IF hi = lo + 1 THEN stream[(lo \div 2) + 1][(lo % 2) + 1]
  ELSE LET mid == (lo + hi) \div 2
       IN DeclaredSum(lo, mid) + DeclaredSum(mid, hi)

\* The header declares more words than the traversal limit.
DeclaresTooLarge ==
  /\ TableComplete
  /\ DeclaredSum(1, DeclaredCount + 1) > options.traversalLimitInWords

\* The constructor has decided on the header: it is past the check of the
\* traversal limit, or an exception has left it.
HeaderDecided ==
  rpc \in {"too_large", "allocate", "payload", "constructed", "destroyed",
           "thrown"}

\* "Message is too large." is among the failures reported.
TooLargeReported ==
  \E i \in DOMAIN failures : failures[i] = "Message is too large."

\* When "Message is too large." is reported only the segment table has been
\* read from the stream, and nothing is allocated.
NoPayloadAtTooLarge ==
  rpc = "too_large" =>
    /\ consumed = BytesPerWord * ((reader.segmentCount \div 2) + 1)
    /\ NothingAllocated

\* C10 as stated: every header whose declared sizes sum to more than
\* options.traversalLimitInWords gets "Message is too large.", reported
\* before any payload byte is read and before any buffer is allocated.
C10_Original ==
  /\ (HeaderDecided /\ DeclaresTooLarge) => TooLargeReported
  /\ NoPayloadAtTooLarge

\* C10: traversal-limit check precedes payload.  Every header of fewer than
\* 512 segments whose declared sizes sum to more than
\* options.traversalLimitInWords gets "Message is too large."; and whenever
\* that failure is reported, only the segment table has been read from the
\* stream and no buffer is allocated.
C10_TraversalLimitFirst ==
  /\ (HeaderDecided /\ DeclaresTooLarge /\ DeclaredCount < SegmentCountLimit)
       => TooLargeReported
  /\ NoPayloadAtTooLarge

\* A two-segment header within the limit but for its second size, at the
\* moment its failure is reported.
C10_Witness ==
  /\ rpc = "too_large"
  /\ DeclaredCount = 2
  /\ DeclaresTooLarge
  /\ stream[1][2] <= options.traversalLimitInWords
  /\ consumed = 2 * BytesPerWord
  /\ failures = <<"Message is too large.">>

\* A FlatArrayMessageReader whose constructor reported a failure and
\* returned shows no segment.
FlatFailedIsEmpty ==
  (fpc = "constructed" /\ flatReader.failure # NoFailure) =>
    \A id \in SegmentIds : FlatGetSegment(flatReader, id).size = 0

\* An InputStreamMessageReader whose constructor reported a failure and
\* completed shows no segment, and has answered none.
StreamFailedIsEmpty ==
  (rpc \in {"constructed", "destroyed"} /\ failures # <<>>) =>
    /\ reader.segment0.size = 0
    /\ reader.moreSegments = <<>>
    /\ got.asked => got.words = <<>>

\* C11: failed reader construction yields the empty message.  Whenever the
\* constructor of a FlatArrayMessageReader or of an InputStreamMessageReader
\* reports a failure and construction nevertheless completes, every
\* getSegment(id), id 0 included, returns the empty view: no segment is
\* retained.
C11_FailedReaderIsEmpty == FlatFailedIsEmpty /\ StreamFailedIsEmpty

\* A reader that recovered from too many segments, asked for segment 0.
C11_Witness ==
  /\ rpc = "constructed"
  /\ failures = <<"Message has too many segments.">>
  /\ got.asked
  /\ got.id = 0

\* The stream holds a well-formed message: a whole table that declares at
\* least one segment and fewer than 512, sizes that sum to at most
\* options.traversalLimitInWords, and all the words the sizes announce.
MessageWords == (DeclaredCount \div 2) + 1 + DeclaredSum(1, DeclaredCount + 1)
WellFormed ==
  /\ TableComplete
  /\ DeclaredCount >= 1
  /\ DeclaredCount < SegmentCountLimit
  /\ DeclaredSum(1, DeclaredCount + 1) <= options.traversalLimitInWords
  /\ Len(stream) >= MessageWords

\* C12: stream left past the message.  For every well-formed message of at
\* least one segment and every sequence of getSegment calls, none included,
\* the reader never takes more bytes from the stream than the message has,
\* 8 * (segmentCount / 2 + 1) + 8 * sum(segmentSizes), and once it is
\* destroyed it has taken, by read and skip, exactly that many.
C12_StreamLeftPastMessage ==
  (rpc # "none" /\ WellFormed) =>
    /\ consumed <= BytesPerWord * MessageWords
    /\ rpc = "destroyed" => consumed = BytesPerWord * MessageWords

\* A three-segment message destroyed with only its first segment read: the
\* destructor skipped the other two.
C12_Witness ==
  /\ writes = 1
  /\ Len(segments) = 3
  /\ Len(segments[1]) = 1 /\ Len(segments[2]) = 2 /\ Len(segments[3]) = 2
  /\ WellFormed
  /\ rpc = "destroyed"
  /\ reader.readPos = BytesPerWord
  /\ ~got.asked
  /\ consumed = 7 * BytesPerWord

\* The view InputStreamMessageReader::getSegment(id) returns.
SegmentView(id) ==
  IF id = 0 THEN reader.segment0
  ELSE IF id <= Len(reader.moreSegments) THEN reader.moreSegments[id]
  ELSE NullPtr

\* The non-empty segment getSegment answered last was all read from the
\* stream, and the cursor, where there is one, is at or past its end.
Materialized ==
  (got.asked /\ got.words # <<>>) =>
    /\ \A k \in DOMAIN got.words : got.words[k] # Garbage
    /\ reader.readPos # NullPos =>
         reader.readPos >= EndOf(SegmentView(got.id))

\* The cursor is not past the end of the last segment.
CursorBounded ==
  reader.readPos # NullPos =>
    reader.readPos <= EndOf(reader.moreSegments[Len(reader.moreSegments)])

\* The cursor does not move backward in this step.
CursorForward ==
  reader.readPos # NullPos => reader'.readPos >= reader.readPos

\* C13: a returned segment is fully materialized.  For every stream and
\* every order of getSegment calls, a non-empty segment that getSegment(id)
\* returns has all its bytes read from the stream into the buffer (the read
\* cursor is at or past the segment's end), and the cursor never moves
\* backward nor past the end of the last segment.
C13_ReturnedSegmentMaterialized ==
  /\ [](Materialized /\ CursorBounded)
  /\ [][CursorForward]_vars

\* A reader that recovered from "Message has too many segments." answers
\* getSegment(0) with a one-word segment no byte of which was read.
C13_Witness ==
  /\ rpc = "constructed"
  /\ failures # <<>>
  /\ got.asked
  /\ got.id = 0
  /\ got.words = <<Garbage>>

\* The same of the readers whose constructor reported no failure.
AcceptedSegmentMaterialized ==
  /\ [](failures = <<>> => Materialized /\ CursorBounded)
  /\ [][CursorForward]_vars

\* The bytes of the segment table the stream declares.
TableBytes == BytesPerWord * ((DeclaredCount \div 2) + 1)

\* A well-formed message of several segments on a stream that returns
\* exactly the minimum asked.
LazyCase == exactReads /\ WellFormed /\ DeclaredCount > 1

Max(a, b) == IF a > b THEN a ELSE b

\* After construction the bytes read are the table and segment 0; they stay
\* at least that, and are the whole message once the last segment was
\* answered.
LazyState ==
  (LazyCase /\ rpc = "constructed") =>
    /\ consumed >= TableBytes + EndOf(reader.segment0)
    /\ ~got.asked => consumed = TableBytes + EndOf(reader.segment0)
    /\ (got.asked /\ got.id = DeclaredCount - 1) =>
         consumed = BytesPerWord * MessageWords

\* A getSegment(id) reads up to the end of segment id, and nothing if the
\* bytes read are there already (so getSegment(0) reads nothing).
LazyStep ==
  (LazyCase /\ rpc = "constructed" /\ rpc' = "constructed") =>
    /\ got'.asked
    /\ consumed' = Max(consumed, TableBytes + EndOf(SegmentView(got'.id)))

\* C14: lazy tail read.  For a message of more than one segment on a stream
\* that returns exactly the minimum asked, the bytes read after construction
\* and after getSegment(0) are exactly the segment table and segment 0,
\* getSegment(k) reads only up to the end of segment k, and after getSegment
\* of the last segment all bytes of the message have been read.
C14_LazyTailRead == []LazyState /\ [][LazyStep]_vars

\* Three segments, the second answered: the third is still on the stream.
C14_Witness ==
  /\ LazyCase
  /\ writes = 1
  /\ Len(segments) = 3
  /\ Len(segments[1]) = 1 /\ Len(segments[2]) = 2 /\ Len(segments[3]) = 2
  /\ rpc = "constructed"
  /\ got.asked
  /\ got.id = 1
  /\ consumed = 5 * BytesPerWord

\* The two writers alone, on any list of segments.
WriteNext == MessageToFlatArray \/ WriteMessage

InitWrite ==
  /\ segments \in Messages
  /\ FlatIdle
  /\ StreamIdle
  /\ MutexIdle
  /\ OnceIdle

SpecWrite == InitWrite /\ [][WriteNext]_vars

\* The words of `segments` before segment i.
WordsBefore(i) == SumSizes(SubSeq(segments, 1, i - 1), 1)

\* `words` is the framing of `segments`: a table of n/2 + 1 words whose
\* entry 0 is n - 1, whose entries 1..n are the sizes, whose entry n + 1 is
\* zero when n is even, then the segments' words in order and nothing more.
FramingOf(words) ==
  LET n == Len(segments)
      tableWords == (n \div 2) + 1
  IN /\ Len(words) = tableWords + SumSizes(segments, 1)
     /\ Len(words) = computeSerializedSizeInWords(segments)
     /\ Table(words, 0) = n - 1
     /\ \A i \in 1..n : Table(words, i) = Len(segments[i])
     /\ n % 2 = 0 => Table(words, n + 1) = 0
     /\ \A i \in 1..n : \A k \in 1..Len(segments[i]) :
          words[tableWords + WordsBefore(i) + k] = segments[i][k]

\* C15: segment-table layout of written messages.  For every non-empty list
\* of n segments, what messageToFlatArray returns and what writeMessage
\* writes both are a table of exactly n/2 + 1 words (entry 0 is n - 1,
\* entries 1..n are the sizes in words in order, entry n + 1 is zero when n
\* is even) followed at once by the payload: n/2 + 1 + sum(sizes) words in
\* all, which is computeSerializedSizeInWords.
C15_TableLayout ==
  /\ fpc = "built" => FramingOf(array)
  /\ writes = 1 => FramingOf(stream)

\* Two segments, an even number, framed both ways: the table has a padding
\* entry.
C15_Witness ==
  /\ Len(segments) = 2
  /\ Len(segments[1]) = 2 /\ Len(segments[2]) = 1
  /\ fpc = "built"
  /\ writes = 1
  /\ array = stream
  /\ Len(stream) = 5
  /\ stream[2] = <<1, 0>>

\* ------------------------------------------- the state word and assertions

SpecAssert == InitMutex /\ [][AssertNext]_vars

\* Threads inside lock(SHARED) that have added themselves to the count and
\* wait for the exclusive holder.
SharedWaiters == {t \in Threads : pc[t] \in {"sl_wait", "sl_parked", "sl_load"}}

\* What C16 says of the state word: EXCLUSIVE_HELD set and SHARED_COUNT > 0
\* are never both true.
C16_Original ==
  ~(HasBit(futex, EXCLUSIVE_HELD) /\ SharedCount(futex) > 0)

\* C16: state-word exclusivity.  In every reachable state of the state word,
\* EXCLUSIVE_HELD is set only while no thread holds the lock in shared mode;
\* SHARED_COUNT may be positive with EXCLUSIVE_HELD set, and is then the
\* number of threads waiting inside lock(SHARED).
C16_StateWordExclusivity ==
  HasBit(futex, EXCLUSIVE_HELD) =>
    /\ \A t \in Threads : ~HoldsShared(t)
    /\ SharedCount(futex) = Cardinality(SharedWaiters)

\* Two readers are counted in the word behind an exclusive holder.
C16_Witness ==
  /\ futex = EXCLUSIVE_HELD + 2
  /\ \E t \in Threads : HoldsExclusive(t)
  /\ Cardinality(SharedWaiters) = 2

\* C17: assertLockedByCaller(EXCLUSIVE) passes in exactly the states where
\* some thread holds the lock exclusively: it fails when the lock is held
\* only in shared mode or by nobody, and it never changes the state word.
C17_AssertExclusive ==
  [][\A t \in Threads :
       AssertLockedByCaller(t, "EXCLUSIVE") =>
         /\ asserted'.passed = (\E u \in Threads : HoldsExclusive(u))
         /\ futex' = futex]_vars

\* The assertion has failed on a word with a shared count and an exclusive
\* request but no exclusive holder.
C17_Witness ==
  /\ asserted.called
  /\ asserted.exclusivity = "EXCLUSIVE"
  /\ ~asserted.passed
  /\ futex = EXCLUSIVE_REQUESTED + 1
  /\ \E t \in Threads : HoldsShared(t)

\* C18: assertLockedByCaller(SHARED) fails whenever no thread holds the lock
\* in shared mode, in every reachable state of the mutex.
C18_AssertSharedFails ==
  [][\A t \in Threads :
       (AssertLockedByCaller(t, "SHARED") /\ \A u \in Threads : ~HoldsShared(u))
         => ~asserted'.passed]_vars

\* The assertion has passed while the only thread counted in the word waits
\* inside lock(SHARED) behind an exclusive holder.
C18_Witness ==
  /\ asserted.called
  /\ asserted.exclusivity = "SHARED"
  /\ asserted.passed
  /\ futex = EXCLUSIVE_HELD + 1
  /\ \A u \in Threads : ~HoldsShared(u)
  /\ \E u \in Threads : pc[u] = "sl_parked"

\* ------------------------------------------------- Once: reset and disable

\* C19: Once::reset outcome by state.  On INITIALIZED it moves the latch to
\* UNINITIALIZED, so that the next runOnce runs its initializer again; on
\* DISABLED it succeeds and leaves the state DISABLED; on UNINITIALIZED,
\* INITIALIZING or INITIALIZING_WITH_WAITERS it fails with "reset() called
\* while not initialized." and leaves the state unchanged.
C19_ResetOutcome ==
  /\ [][\A t \in Threads :
          Reset(t) =>
            /\ resetOutcome'.called
            /\ onceFutex = INITIALIZED =>
                 /\ onceFutex' = UNINITIALIZED
                 /\ resetOutcome'.failure = NoFailure
            /\ onceFutex = DISABLED =>
                 /\ onceFutex' = DISABLED
                 /\ resetOutcome'.failure = NoFailure
            /\ onceFutex \in {UNINITIALIZED, INITIALIZING, INITIALIZING_WITH_WAITERS} =>
                 /\ onceFutex' = onceFutex
                 /\ resetOutcome'.failure = "reset() called while not initialized."]_vars
  /\ [][\A t \in Threads :
          (RunOnce(t) /\ onceFutex = UNINITIALIZED) =>
            (opc'[t] = "init" /\ initRuns' = initRuns + 1)]_vars

\* After a reset() that succeeded the initializer has run a second time.
C19_Witness ==
  /\ resetOutcome.called
  /\ resetOutcome.failure = NoFailure
  /\ nFailed = 0
  /\ initRuns = 2
  /\ onceFutex = INITIALIZED

\* Thread t is inside disable().
InDisable(t) == opc[t] \in {"d_cas", "d_wcas", "d_wait", "d_parked", "d_load"}

\* Some thread is executing init.run().
InitInFlight == \E u \in Threads : opc[u] = "init"

\* Thread t returns from disable() in this step.
DisableReturns(t) ==
  /\ Disable(t) \/ DisableCas(t) \/ DisableWaiterCas(t) \/ DisableLoad(t)
  /\ opc'[t] = "idle"

\* C20: Once::disable waits out an in-flight initializer.  Under every
\* interleaving with runOnce and reset, while a thread executes init the
\* state is INITIALIZING or INITIALIZING_WITH_WAITERS and no step sets it to
\* DISABLED; a disable() that runs meanwhile stays inside the call, and
\* disable() returns only when the state is DISABLED.
C20_DisableWaits ==
  /\ [](InitInFlight => onceFutex \in {INITIALIZING, INITIALIZING_WITH_WAITERS})
  /\ [][(onceFutex # DISABLED /\ onceFutex' = DISABLED) =>
          (~InitInFlight /\ onceFutex \in {UNINITIALIZED, INITIALIZED})]_vars
  /\ [][\A t \in Threads :
          DisableReturns(t) =>
            (onceFutex' = DISABLED /\ ~InitInFlight)]_vars

\* A disable() is parked while another thread executes init.
C20_Witness ==
  \E t, u \in Threads :
    /\ opc[t] = "d_parked"
    /\ opc[u] = "init"
    /\ onceFutex = INITIALIZING_WITH_WAITERS

\* ------------------------------------------------ Once: the latch's moves

\* C21: DISABLED is terminal.  Once the latch state is DISABLED no step of
\* runOnce, reset or disable, nor of an initializer that finishes or fails,
\* changes it, and a runOnce that enters on a DISABLED latch returns at once
\* without running its initializer.
C21_DisabledIsTerminal ==
  /\ [][onceFutex = DISABLED => onceFutex' = DISABLED]_vars
  /\ [](onceFutex = DISABLED => ~InitInFlight)
  /\ [][\A t \in Threads :
          (RunOnce(t) /\ onceFutex = DISABLED) =>
            /\ opc'[t] = "idle"
            /\ ret'[t] = "skipped"
            /\ initRuns' = initRuns]_vars

\* The latch was disabled after an initializer had run; a reset() on it
\* succeeded and a later runOnce returned without running init.
C21_Witness ==
  /\ onceFutex = DISABLED
  /\ initRuns = 1
  /\ resetOutcome.called
  /\ resetOutcome.failure = NoFailure
  /\ disableCalled
  /\ nOnceCalls = 4
  /\ \E t \in Threads : ret[t] = "skipped"

\* The steps that may move the latch backward according to C22: the CAS of
\* reset() and the store of disable().
ResetMove ==
  onceFutex = INITIALIZED /\ onceFutex' = UNINITIALIZED /\ \E t \in Threads : Reset(t)
DisableMove ==
  onceFutex' = DISABLED /\ \E t \in Threads : DisableCas(t)
\* The revert of a runOnce whose initializer failed.
RevertMove ==
  /\ onceFutex \in {INITIALIZING, INITIALIZING_WITH_WAITERS}
  /\ onceFutex' = UNINITIALIZED
  /\ \E t \in Threads : InitThrows(t)
\* A move forward in the order UNINITIALIZED, INITIALIZING,
\* INITIALIZING_WITH_WAITERS, INITIALIZED.
ForwardMove == onceFutex < onceFutex' /\ onceFutex' <= INITIALIZED

\* What C22 says: every change of the latch is a move forward, the CAS of
\* reset() or the store of disable().
C22_Original ==
  [][onceFutex' # onceFutex => (ForwardMove \/ ResetMove \/ DisableMove)]_vars

\* C22: monotonic latch transitions.  Every change of the Once state moves
\* forward in the order UNINITIALIZED, INITIALIZING,
\* INITIALIZING_WITH_WAITERS, INITIALIZED, except the changes made by reset
\* (INITIALIZED to UNINITIALIZED), by disable (to DISABLED) and by a runOnce
\* whose initializer failed (INITIALIZING or INITIALIZING_WITH_WAITERS back
\* to UNINITIALIZED).
C22_MonotonicLatch ==
  [][onceFutex' # onceFutex =>
       (ForwardMove \/ ResetMove \/ DisableMove \/ RevertMove)]_vars

\* An initializer has failed with waiters noted: the latch is back at
\* UNINITIALIZED and the failing thread owes the wake.
C22_Witness ==
  /\ onceFutex = UNINITIALIZED
  /\ nFailed = 1
  /\ \E t \in Threads : opc[t] = "fail_wake"
  /\ \E t \in Threads : opc[t] = "parked"

\* ------------------------------------------------------- Once: progress

\* The scheduler runs every thread that is inside runOnce() or disable(),
\* and an initializer that was started returns or throws.  Entering a call
\* is never forced, and a parked thread is not owed a spurious return.
OnceFairness == \A t \in Threads : WF_vars(OnceStep(t))

SpecOnceFair == InitOnce /\ [][OnceNext]_vars /\ OnceFairness

\* An initializer has failed and owes the wake to runOnce callers that are
\* parked, and the latch it reverted has no next initializer yet.
FailedWithWaiters ==
  /\ onceFutex = UNINITIALIZED
  /\ \E t \in Threads : opc[t] = "fail_wake"
  /\ \E u \in Threads : opc[u] = "parked"

\* The wake of a failed initializer wakes every parked caller.
AllWoken ==
  \A t \in Threads :
    (OnceWake(t) /\ opc[t] = "fail_wake") =>
      \A u \in Threads : opc[u] = "parked" => opc'[u] = "load"

\* A runOnce that has returned normally was preceded by an initializer that
\* completed, or the latch is disabled.
ReturnedAfterInit ==
  \A t \in Threads :
    ret[t] \in {"ran", "skipped"} => (InitsDone >= 1 \/ onceFutex = DISABLED)

\* What C23 says: after the failure some thread becomes the next initializer.
C23_Original ==
  /\ [][AllWoken]_vars
  /\ [](Cardinality({t \in Threads : opc[t] = "init"}) <= 1)
  /\ [](ReturnedAfterInit)
  /\ FailedWithWaiters ~> InitInFlight

\* C23: waiters survive a failed initializer.  If the initializing thread's
\* init fails while other runOnce callers are parked, all of them are woken;
\* one thread, and never two at a time, becomes the next initializer unless
\* the latch is disabled first; and no runOnce returns normally before some
\* initializer has completed or the latch has been disabled.
C23_WaitersSurviveFailure ==
  /\ [][AllWoken]_vars
  /\ [](Cardinality({t \in Threads : opc[t] = "init"}) <= 1)
  /\ [](ReturnedAfterInit)
  /\ FailedWithWaiters ~> (InitInFlight \/ onceFutex = DISABLED)

\* A caller that was parked behind a failed initializer is the next
\* initializer, the first having left runOnce with its exception.
C23_Witness ==
  \E t, u \in Threads :
    /\ ret[t] = "threw"
    /\ opc[t] = "idle"
    /\ opc[u] = "init"
    /\ nOnceCalls = 2
    /\ initRuns = 2
    /\ nFailed = 1

\* ------------------------------------------------- framing: the failures

Uninitialized == "Tried to serialize uninitialized message."

\* C24: an empty segment list is rejected.  On zero segments
\* messageToFlatArray fails inside computeSerializedSizeInWords with the
\* 'uninitialized message' failure and builds no array, and writeMessage
\* fails with it and makes no write call on the sink.
C24_EmptyListRejected ==
  /\ [](segments = <<>> =>
          /\ writes = 0 /\ stream = <<>> /\ array = <<>>
          /\ fpc \in {"start", "failed"}
          /\ fpc = "failed" => flatFailure = Uninitialized
          /\ writeFailure \in {NoFailure, Uninitialized})
  /\ [][(segments = <<>> /\ MessageToFlatArray) =>
          (fpc' = "failed" /\ flatFailure' = Uninitialized)]_vars
  /\ [][(segments = <<>> /\ WriteMessage) =>
          (writeFailure' = Uninitialized /\ writes' = 0 /\ stream' = <<>>)]_vars

\* Both writers have been called on the empty list and have failed.
C24_Witness ==
  /\ segments = <<>>
  /\ fpc = "failed"
  /\ flatFailure = Uninitialized
  /\ writeFailure = Uninitialized
  /\ writes = 0

\* ------------------------------------------ framing: what readers accept

RECURSIVE ViewSizes(_, _)
\* The words of the views from view i on.
ViewSizes(views, i) ==
  IF i > Len(views) THEN 0 ELSE views[i].size + ViewSizes(views, i + 1)

\* The words of the segments a reader with these fields exposes.
ExposedWords(fields) == fields.segment0.size + ViewSizes(fields.moreSegments, 1)

\* A FlatArrayMessageReader constructed with no failure exposes at most
\* traversalLimitInWords words.
FlatWithinLimit ==
  (fpc = "constructed" /\ flatReader.failure = NoFailure) =>
    ExposedWords(flatReader) <= flatReader.options.traversalLimitInWords

\* The same of an InputStreamMessageReader.
StreamWithinLimit ==
  (rpc \in {"constructed", "destroyed"} /\ failures = <<>>) =>
    ExposedWords(reader) <= options.traversalLimitInWords

\* C25: the traversal limit bounds every accepted message.  For every
\* reader, FlatArrayMessageReader or InputStreamMessageReader, whose
\* construction reports no failure, the sizes of the segments it exposes sum
\* to at most options.traversalLimitInWords.
C25_TraversalLimitBounds == FlatWithinLimit /\ StreamWithinLimit

\* A flat reader has accepted one segment of two words under a limit of one.
C25_Witness ==
  /\ fpc = "constructed"
  /\ flatReader.failure = NoFailure
  /\ flatReader.options.traversalLimitInWords = SmallLimit
  /\ flatReader.segment0.size = 2
  /\ flatReader.moreSegments = <<>>

\* ----------------------------------------------- Once: the waiter's loop

\* Thread t's waiter loop (lines 161-184) reaches its final else branch in
\* this step: the word it last observed is none of INITIALIZED, DISABLED
\* and INITIALIZING.  (A CAS of line 166 that succeeds goes to the wait
\* without passing through the branch.)
ReachesElse(t) ==
  /\ RunOnce(t) \/ StartOver(t) \/ WaiterCas(t) \/ WaiterLoad(t)
  /\ opc'[t] = "wait"
  /\ ~(opc[t] = "wcas" /\ onceFutex = INITIALIZING)

\* C26: the debug assertion in the runOnce waiter loop always holds.  Under
\* every interleaving of runOnce calls (with initializers that fail), reset
\* and disable, a runOnce caller that reaches the final else branch of its
\* loop has last observed INITIALIZING_WITH_WAITERS.
C26_WaiterAssertion ==
  [][\A t \in Threads :
       ReachesElse(t) => ostate'[t] = INITIALIZING_WITH_WAITERS]_vars

\* A waiter is on its way to FUTEX_WAIT with UNINITIALIZED as the word it
\* last observed, the initializer having failed.
C26_Witness ==
  \E t \in Threads :
    /\ opc[t] = "wait"
    /\ ostate[t] = UNINITIALIZED
    /\ nFailed >= 1

\* ------------------------------------------------- Mutex: what unlock does

\* C27: unlock(EXCLUSIVE) effect.  Its atomic release clears EXCLUSIVE_HELD
\* and EXCLUSIVE_REQUESTED and leaves the shared count as it was; it goes on
\* to wake every thread parked on the word exactly when the word just before
\* the release had a bit other than EXCLUSIVE_HELD set, and with no waiters
\* it returns without a wake.
C27_UnlockExclusive ==
  /\ [][\A t \in Threads :
          Unlock(t, "EXCLUSIVE") =>
            /\ ~HasBit(futex', EXCLUSIVE_HELD)
            /\ ~HasBit(futex', EXCLUSIVE_REQUESTED)
            /\ SharedCount(futex') = SharedCount(futex)
            /\ pc'[t] = (IF futex # EXCLUSIVE_HELD THEN "xu_wake" ELSE "idle")]_vars
  /\ [][\A t \in Threads :
          (FutexWake(t) /\ pc[t] = "xu_wake") =>
            (pc'[t] = "idle" /\ \A u \in Threads : pc'[u] \notin {"xl_parked", "sl_parked"})]_vars

\* The holder has released a word that had only a parked reader's count
\* beside EXCLUSIVE_HELD, and owes the wake.
C27_Witness ==
  \E t, u \in Threads :
    /\ pc[t] = "xu_wake"
    /\ state[t] = EXCLUSIVE_HELD + 1
    /\ futex = 1
    /\ pc[u] = "sl_parked"

\* C28: unlock(SHARED) wake policy.  It takes one from the shared count; only
\* when the result is EXCLUSIVE_REQUESTED alone does it try the CAS to 0; it
\* wakes every parked thread exactly when that CAS succeeds, and when the
\* word has changed first the CAS fails, nobody is woken and the word is left
\* as it is.
C28_UnlockShared ==
  /\ [][\A t \in Threads :
          Unlock(t, "SHARED") =>
            /\ futex' = futex - 1
            /\ SharedCount(futex') = SharedCount(futex) - 1
            /\ pc'[t] = (IF futex' = EXCLUSIVE_REQUESTED THEN "su_cas" ELSE "idle")]_vars
  /\ [][\A t \in Threads :
          UnlockSharedCas(t) =>
            IF futex = EXCLUSIVE_REQUESTED
              THEN futex' = 0 /\ pc'[t] = "su_wake"
              ELSE /\ futex' = futex
                   /\ pc'[t] = "idle"
                   /\ \A u \in Threads \ {t} : pc'[u] = pc[u]]_vars
  /\ [][\A t \in Threads :
          (FutexWake(t) /\ pc[t] = "su_wake") =>
            (pc'[t] = "idle" /\ \A u \in Threads : pc'[u] \notin {"xl_parked", "sl_parked"})]_vars
  /\ [](\A t \in Threads : pc[t] = "su_cas" => state[t] = EXCLUSIVE_REQUESTED)

\* The last reader is about to try its CAS, and a new shared locker has
\* changed the word first: the request bit stays, with a count of one.
C28_Witness ==
  \E t, u, v \in Threads :
    /\ pc[t] = "su_cas"
    /\ futex = EXCLUSIVE_REQUESTED + 1
    /\ sharedHeld[u] = 1
    /\ pc[v] = "xl_parked"

\* A FlatArrayMessageReader that parsed a header with no failure parsed a
\* segment count of at least one.
FlatHasSegment ==
  (fpc = "constructed" /\ flatReader.failure = NoFailure /\ Len(array) >= 1) =>
    SegmentCount(Table(array, 0)) >= 1

\* The same of an InputStreamMessageReader.
StreamHasSegment ==
  (rpc \in {"constructed", "destroyed"} /\ failures = <<>>) =>
    (DeclaredCount >= 1 /\ reader.segmentCount >= 1)

\* C29: accepted messages have at least one segment.  For every value of the
\* first header field, with segmentCount = (field + 1) modulo 2^32 (2^UintBits
\* here), a reader that constructs without reporting a failure has parsed a
\* message of segmentCount >= 1.
C29_AtLeastOneSegment == FlatHasSegment /\ StreamHasSegment

\* A stream reader has constructed with no failure on a header whose first
\* field is all ones: no segment, nothing past the first word read.
C29_Witness ==
  /\ rpc = "constructed"
  /\ failures = <<>>
  /\ stream[1][1] = UintMod - 1
  /\ reader.segmentCount = 0
  /\ consumed = BytesPerWord

\* C30: Once operations terminate.  Under weak fairness of the steps inside
\* runOnce and disable, with every initializer returning or failing and
\* finitely many calls, every runOnce and every disable call returns: no
\* caller stays parked on the latch word forever, whatever reset does.
C30_OnceTerminates ==
  \A t \in Threads : (opc[t] # "idle") ~> (opc[t] = "idle")

\* A runOnce caller and a disable caller are both parked behind an
\* initializer.
C30_Witness ==
  \E t, u, v \in Threads :
    /\ opc[t] = "init"
    /\ opc[u] = "parked"
    /\ opc[v] = "d_parked"
    /\ onceFutex = INITIALIZING_WITH_WAITERS

\* ------------------------------------------------- Mutex: the word at rest

\* No thread holds the lock and no thread is inside lock() or unlock().
Quiescent ==
  \A t \in Threads : pc[t] = "idle" /\ ~HoldsExclusive(t) /\ ~HoldsShared(t)

\* C31: the quiescent mutex word is zero.  In every reachable state in which
\* no thread holds the lock and no thread is inside a lock or unlock call the
\* state word is 0, with no stale EXCLUSIVE_REQUESTED bit and no leftover
\* shared count, so that the destructor's assertion futex == 0 holds.
C31_QuiescentWordIsZero == Quiescent => futex = 0

\* The mutex is at rest after MaxLockCalls lock() calls, one of them by an
\* exclusive holder that stored into the datum, have all been unlocked.
C31_Witness ==
  /\ Quiescent
  /\ nLockCalls = MaxLockCalls
  /\ released = 1
  /\ futex = 0

=============================================================================
